---------------------------- MODULE Spec2Model ----------------------------
(***************************************************************************)
(* Code-Gym: a role-based gym management application (Flask + SQLAlchemy). *)
(*                                                                         *)
(* The module models these pieces of domain logic of the repository:       *)
(*   - membership date arithmetic (cashier.payment, cashier._add_months,   *)
(*     reception.register, auth.public_register),                          *)
(*   - the package administration that decides which durations exist       *)
(*     (admin.create_package, admin.update_package),                       *)
(*   - workout-plan validation (trainer.create_plan, admin.update_settings,*)
(*     SystemConfig).                                                      *)
(*   - the revenue by month (admin.revenue_data),                          *)
(*   - the deletion of packages and exercises, the member statistics and   *)
(*     the invoice history (admin.delete_package, admin.delete_exercise,   *)
(*     admin.active_members, admin.members_per_package, cashier.history),  *)
(*   - login, the role redirects and user administration (auth.login,      *)
(*     auth._redirect_for_role, admin.create_user, admin.edit_user).       *)
(*                                                                         *)
(* Form fields are modelled as Python strings: sequences of one-character  *)
(* strings, with str.strip, str.lower, str.split, str.isdigit and int()    *)
(* computed character by character.  Dates are records [y, m, d].          *)
(*                                                                         *)
(* The specifications share the variables:                                 *)
(*   Spec      the application driven by its handlers from an empty        *)
(*             database (packages, registrations, payments, the clock);    *)
(*   SpecExt   one cashier payment for a member of any active_until and a  *)
(*             package of any duration from 1;                             *)
(*   SpecDate  the month arithmetic of the two flows (_add_months and      *)
(*             relativedelta) on bounded inputs;                           *)
(*   SpecMonths _add_months given a months argument below 1;               *)
(*   SpecPlan  one create_plan submission under any stored setting;        *)
(*   SpecReg   one registration on any day for any valid duration;         *)
(*   SpecRev   one revenue request on any table of invoices;               *)
(*   SpecRef   packages, exercises, plans and payments created and deleted;*)
(*   SpecStat  the two member statistics on any table of invoices;         *)
(*   SpecHist  one history request with any filters;                       *)
(*   SpecAuth  one browser session: login, logout, pages, users;           *)
(*   SpecTx    two payment requests for one member, interleaved;           *)
(*   SpecMail  registrations through both forms with a fixed e-mail pool;  *)
(*   SpecSplit _add_months applied twice and once with the summed months.  *)
(***************************************************************************)
EXTENDS Integers, Sequences, FiniteSets, TLC

VARIABLES
    today,       \* date.today(): the date in the server's local time zone
    utcnow,      \* datetime.utcnow(): the date in UTC at the same moment
    tz,          \* the side of UTC the server's zone lies on: -1 west, 0, 1 east
    packages,    \* table package: sequence, id = index, of [name, duration_months, price]
    members,     \* table member: sequence, id = index, of [email, registration_date, active_until]
    invoices,    \* table invoice: sequence, id = index, of [member_id, package_id, amount, created_at]
    last,        \* what the last request did (response + the values it read)
    fn_in,       \* SpecDate: the arguments of _add_months
    fn_out,      \* SpecDate: its result
    config,      \* table system_config: key "max_training_days" -> value string, or unset
    written,     \* the value of the last SystemConfig.set_config call, <<>> before the first
    exercises,   \* table exercise: set of ids
    form,        \* SpecPlan: the POST form of the create_plan request in flight
    plans,       \* tables workout_plan + workout_detail: sequence of [notes, details]
    resp,        \* SpecPlan: the response of create_plan
    revenue,     \* SpecRev: the response of revenue_data
    users,       \* table user: sequence, id = index, of [username, email, password, role, is_active]
    current_user,\* the user id of the browser session, 0 when anonymous
    location,    \* SpecAuth: the response to the browser: a page or a redirect
    tx           \* SpecTx: the two payment requests in flight

vars == <<today, utcnow, tz, packages, members, invoices, last, fn_in, fn_out,
          config, written, exercises, form, plans, resp, revenue,
          users, current_user, location, tx>>

clockVars == <<today, utcnow, tz>>
gymVars  == <<clockVars, packages, members, invoices, last>>
dateVars == <<fn_in, fn_out>>
planVars == <<config, written, exercises, form, plans, resp>>
revVars  == <<revenue>>
authVars == <<users, current_user, location>>
txVars   == <<tx>>

-----------------------------------------------------------------------------
(* Bounds of the model.                                                    *)

YearBase    == 2023   \* first calendar year of the model
YearSpan    == 2      \* the model covers YearBase .. YearBase + YearSpan
MaxMonths   == 25     \* SpecDate: largest months argument
MaxPackages == 1      \* Spec: rows of table package
MaxMembers  == 1      \* Spec: rows of table member
MaxInvoices == 2      \* Spec: rows of table invoice
MaxRows     == 2      \* SpecPlan: entries of each form list

-----------------------------------------------------------------------------
(* Python strings.  The characters of the model are those of Latin-1.      *)

\* the characters with str.isdecimal(): the digits int() and float() read
Decimals   == <<"0", "1", "2", "3", "4", "5", "6", "7", "8", "9">>
\* the characters with str.isdigit(): the decimal digits and the superscripts
Digits     == Decimals \o <<"²", "³", "¹">>
\* the characters str.lower() changes, and what it changes them to
UpperCase  ==
  <<"A", "B", "C", "D", "E", "F", "G", "H", "I", "J", "K", "L", "M", "N",
    "O", "P", "Q", "R", "S", "T", "U", "V", "W", "X", "Y", "Z", "À", "Á",
    "Â", "Ã", "Ä", "Å", "Æ", "Ç", "È", "É", "Ê", "Ë", "Ì", "Í", "Î", "Ï",
    "Ð", "Ñ", "Ò", "Ó", "Ô", "Õ", "Ö", "Ø", "Ù", "Ú", "Û", "Ü", "Ý", "Þ">>
LowerCase  ==
  <<"a", "b", "c", "d", "e", "f", "g", "h", "i", "j", "k", "l", "m", "n",
    "o", "p", "q", "r", "s", "t", "u", "v", "w", "x", "y", "z", "à", "á",
    "â", "ã", "ä", "å", "æ", "ç", "è", "é", "ê", "ë", "ì", "í", "î", "ï",
    "ð", "ñ", "ò", "ó", "ô", "õ", "ö", "ø", "ù", "ú", "û", "ü", "ý", "þ">>
\* the characters str.strip() removes (str.isspace)
Whitespace ==
  {"\t", "\n", "", "\f", "\r", "", "", "", "", " ", "", " "}
\* the characters int() and float() ignore around a number
NumberSpace ==
  {"\t", "\n", "", "\f", "\r", " ", "", " "}

RECURSIVE IndexOf(_, _, _)
IndexOf(c, seq, i) ==
    IF i > Len(seq) THEN 0 ELSE IF seq[i] = c THEN i ELSE IndexOf(c, seq, i + 1)

IsDigitChar(c)   == IndexOf(c, Digits, 1) > 0
IsDecimalChar(c) == IndexOf(c, Decimals, 1) > 0
DigitVal(c)      == IndexOf(c, Decimals, 1) - 1

\* str.lower, one character
LowerChar(c) ==
    LET i == IndexOf(c, UpperCase, 1) IN IF i > 0 THEN LowerCase[i] ELSE c

\* str.lower
lower(s) == [i \in 1..Len(s) |-> LowerChar(s[i])]

RECURSIVE LStripOf(_, _)
LStripOf(s, chars) ==
    IF s # <<>> /\ Head(s) \in chars THEN LStripOf(Tail(s), chars) ELSE s

RECURSIVE RStripOf(_, _)
RStripOf(s, chars) ==
    IF s # <<>> /\ s[Len(s)] \in chars
    THEN RStripOf(SubSeq(s, 1, Len(s) - 1), chars) ELSE s

LStrip(s) == LStripOf(s, Whitespace)
RStrip(s) == RStripOf(s, Whitespace)

\* str.strip
strip(s) == RStrip(LStrip(s))

\* str.split(sep): the pieces between the separators; "" gives [""]
RECURSIVE SplitFrom(_, _, _)
SplitFrom(s, sep, cur) ==
    IF s = <<>> THEN <<cur>>
    ELSE IF Head(s) = sep THEN <<cur>> \o SplitFrom(Tail(s), sep, <<>>)
    ELSE SplitFrom(Tail(s), sep, Append(cur, Head(s)))

split(s, sep) == SplitFrom(s, sep, <<>>)

\* str.isdigit: non-empty and every character a digit
isdigit(s) == s # <<>> /\ \A i \in 1..Len(s) : IsDigitChar(s[i])

\* str.isdecimal: non-empty and every character a decimal digit
isdecimal(s) == s # <<>> /\ \A i \in 1..Len(s) : IsDecimalChar(s[i])

RECURSIVE DigitsValue(_, _)
DigitsValue(s, acc) ==
    IF s = <<>> THEN acc ELSE DigitsValue(Tail(s), 10 * acc + DigitVal(Head(s)))

\* a numeric literal may hold single underscores, each between two digits
underscores_ok(s) ==
    \A i \in 1..Len(s) :
        s[i] = "_" => /\ i > 1 /\ IsDecimalChar(s[i - 1])
                      /\ i < Len(s) /\ IsDecimalChar(s[i + 1])

RECURSIVE without_underscores(_)
without_underscores(s) ==
    IF s = <<>> THEN <<>>
    ELSE IF Head(s) = "_" THEN without_underscores(Tail(s))
    ELSE <<Head(s)>> \o without_underscores(Tail(s))

\* int(s): surrounding whitespace is ignored, one optional sign, then decimal
\* digits with single underscores between them; anything else raises
\* ValueError (ok = FALSE).
int(s) ==
    LET t    == RStripOf(LStripOf(s, NumberSpace), NumberSpace)
        neg  == t # <<>> /\ Head(t) = "-"
        sgn  == t # <<>> /\ Head(t) \in {"-", "+"}
        body == IF sgn THEN Tail(t) ELSE t
        digs == without_underscores(body)
    IN  IF underscores_ok(body) /\ isdecimal(digs)
        THEN [ok |-> TRUE,
              val |-> IF neg THEN 0 - DigitsValue(digs, 0) ELSE DigitsValue(digs, 0)]
        ELSE [ok |-> FALSE, val |-> 0]

\* request.form.get(key, type=int): None (ok = FALSE) when the conversion raises
form_get_int(s) == int(s)

-----------------------------------------------------------------------------
(* Python floats are IEEE 754 doubles.  A float is nan, an infinity, or a  *)
(* finite number sign * mant * 2^exp: mant is a natural number below 2^53, *)
(* odd or zero, so that every double is written in one way; exp is at      *)
(* least -1074; zero is mant = 0, exp = 0, sign = 1 (the sign of a zero is *)
(* not kept).  mant is past the integers of the checker and is held as its *)
(* digits in base 4096, lowest first, without high zero digit.  The model  *)
(* reads literals of up to nine significant digits.                        *)

Max(a, b) == IF a >= b THEN a ELSE b
Min(a, b) == IF a <= b THEN a ELSE b

\* 2^k, k in 0..12
Pow2(k) == <<1, 2, 4, 8, 16, 32, 64, 128, 256, 512, 1024, 2048, 4096>>[k + 1]

BigAt(a, i) == IF i \in 1..Len(a) THEN a[i] ELSE 0

\* the number of digits of a without its high zero digits (1 for zero)
BigLen(a) ==
    IF \A i \in 1..Len(a) : a[i] = 0 THEN 1
    ELSE CHOOSE i \in 1..Len(a) : a[i] # 0 /\ \A j \in (i + 1)..Len(a) : a[j] = 0

\* a without its high zero digits
BigTrim(a) == [i \in 1..BigLen(a) |-> a[i]]

\* a natural number of the checker
Big(n) == BigTrim(<<n % 4096, (n \div 4096) % 4096, n \div 16777216>>)

\* one round of carries: every digit keeps its part in 0..4095 and takes
\* what the digit below it passes on (a borrow is a carry of -1)
BigCarry(c) ==
    [i \in 1..(IF c[Len(c)] >= 4096 THEN Len(c) + 1 ELSE Len(c)) |->
         (BigAt(c, i) % 4096) + (BigAt(c, i - 1) \div 4096)]

RECURSIVE BigNorm(_)
BigNorm(c) ==
    IF \A i \in 1..Len(c) : c[i] \in 0..4095 THEN BigTrim(c)
    ELSE BigNorm(BigCarry(c))

BigAdd(a, b) ==
    BigNorm([i \in 1..Max(Len(a), Len(b)) |-> BigAt(a, i) + BigAt(b, i)])

\* a - b, a >= b
BigSub(a, b) ==
    BigNorm([i \in 1..Max(Len(a), Len(b)) |-> BigAt(a, i) - BigAt(b, i)])

\* the sum of b[j] * a[i - j + 1] over j in lo..hi
RECURSIVE BigDot(_, _, _, _, _)
BigDot(a, b, i, lo, hi) ==
    IF lo = hi THEN b[lo] * BigAt(a, i - lo + 1)
    ELSE BigDot(a, b, i, lo, (lo + hi) \div 2)
         + BigDot(a, b, i, ((lo + hi) \div 2) + 1, hi)

\* a * b
BigMul(a, b) ==
    BigNorm([i \in 1..(Len(a) + Len(b) - 1) |-> BigDot(a, b, i, 1, Len(b))])

\* a < b
BigLess(a, b) ==
    \E i \in 1..Max(Len(a), Len(b)) :
        /\ BigAt(a, i) < BigAt(b, i)
        /\ \A j \in (i + 1)..Max(Len(a), Len(b)) : BigAt(a, j) = BigAt(b, j)

\* 5^n
RECURSIVE BigPow5(_)
BigPow5(n) ==
    IF n = 0 THEN <<1>>
    ELSE IF n % 2 = 1 THEN BigMul(BigPow5(n - 1), <<5>>)
    ELSE BigMul(BigPow5(n \div 2), BigPow5(n \div 2))

\* the number of binary digits of a without high zero digit (0 for zero)
BitLen(a) ==
    12 * (Len(a) - 1) + Cardinality({k \in 0..11 : Pow2(k) <= a[Len(a)]})

\* binary digit j of a, the lowest being digit 0
BitAt(a, j) == (BigAt(a, (j \div 12) + 1) \div Pow2(j % 12)) % 2

\* some binary digit of a below digit j is 1
LowBits(a, j) ==
    \/ \E i \in 1..(j \div 12) : BigAt(a, i) # 0
    \/ BigAt(a, (j \div 12) + 1) % Pow2(j % 12) # 0

\* floor(a / 2^k)
BigShiftRight(a, k) ==
    BigTrim([i \in 1..Max(1, Len(a) - (k \div 12)) |->
                (BigAt(a, i + (k \div 12)) \div Pow2(k % 12))
                + (BigAt(a, i + (k \div 12) + 1) % Pow2(k % 12))
                  * Pow2(12 - (k % 12))])

\* a * 2^k
BigShiftLeft(a, k) ==
    BigTrim([i \in 1..(Len(a) + (k \div 12) + 1) |->
                ((BigAt(a, i - (k \div 12)) * Pow2(k % 12)) % 4096)
                + ((BigAt(a, i - (k \div 12) - 1) * Pow2(k % 12)) \div 4096)])

\* the lowest digit of a that is not 0, a > 0
BigLow(a) == CHOOSE i \in 1..Len(a) : a[i] # 0 /\ \A j \in 1..(i - 1) : a[j] = 0

\* the number of low binary digits of a that are 0, a > 0
TrailingZeros(a) ==
    12 * (BigLow(a) - 1) + Cardinality({k \in 1..11 : a[BigLow(a)] % Pow2(k) = 0})

\* floor(n / d) from its binary digit b downwards, q holding the digits
\* above: digit b is 1 when t, q with that digit set, has d * t <= n
RECURSIVE BigQuotientFrom(_, _, _, _)
RECURSIVE BigQuotientStep(_, _, _, _, _)
BigQuotientStep(n, d, q, t, b) ==
    IF BigLess(n, BigMul(d, t)) THEN BigQuotientFrom(n, d, q, b - 1)
    ELSE BigQuotientFrom(n, d, t, b - 1)

BigQuotientFrom(n, d, q, b) ==
    IF b < 0 THEN q
    ELSE BigQuotientStep(n, d, q, BigAdd(q, BigShiftLeft(<<1>>, b)), b)

\* floor(n / d), n >= d > 0, both without high zero digit
BigQuotient(n, d) == BigQuotientFrom(n, d, <<0>>, BitLen(n) - BitLen(d))

FloatFinite(sign, mant, exp) ==
    [kind |-> "num", sign |-> sign, mant |-> mant, exp |-> exp]
FloatZero      == FloatFinite(1, <<0>>, 0)
FloatNaN       == [kind |-> "nan", sign |-> 1, mant |-> <<0>>, exp |-> 0]
FloatInf(sign) == [kind |-> "inf", sign |-> sign, mant |-> <<0>>, exp |-> 0]

\* sign * r * 2^e as a float, r > 0 of at most 53 binary digits and rounded
\* already: the low zero digits of r go into the exponent, and 2^1024 and
\* more is an infinity
float_pack(sign, r, e) ==
    IF BitLen(r) + e > 1024 THEN FloatInf(sign)
    ELSE FloatFinite(sign, BigShiftRight(r, TrailingZeros(r)), e + TrailingZeros(r))

\* q * 2^e rounded up to the next multiple of 2^e when `up`
round_up(sign, q, e, up) ==
    IF up THEN float_pack(sign, BigAdd(q, <<1>>), e)
    ELSE IF q = <<0>> THEN FloatZero
    ELSE float_pack(sign, q, e)

\* n * 2^e without the k low binary digits of n, rounded to the nearest, a
\* tie to the even neighbour: up when the highest digit cut off is 1 and
\* either something below it is left (in n or, when sticky, past n) or the
\* lowest digit kept is 1
round_cut(sign, n, e, sticky, k) ==
    round_up(sign, BigShiftRight(n, k), e + k,
             /\ k > 0
             /\ BitAt(n, k - 1) = 1
             /\ (sticky \/ LowBits(n, k - 1) \/ BitAt(n, k) = 1))

\* The double nearest to sign * (n + f) * 2^e, where n is a natural number
\* without high zero digit and f is 0, or when sticky some fraction with
\* 0 < f < 1 (then n has at least 55 binary digits).  A double keeps 53
\* binary digits and none below 2^-1074: the other low digits of n are cut.
round_half_even(sign, n, e, sticky) ==
    round_cut(sign, n, e, sticky, Max(0, Max(BitLen(n) - 53, (0 - 1074) - e)))

\* 5^k as an integer of the checker, k in 0..13
RECURSIVE Pow5(_)
Pow5(k) == IF k = 0 THEN 1 ELSE 5 * Pow5(k - 1)

\* floor(n / d) with what the division leaves: sticky when n is not a
\* multiple of d
quotient_parts(n, d, e, q) == [n |-> q, e |-> e, sticky |-> BigLess(BigMul(q, d), n)]

\* (m / d) * 2^e as a quotient of at least 55 binary digits: m is taken
\* 2^s times
divide_parts(m, d, e, s) ==
    quotient_parts(BigShiftLeft(m, s), d, e - s, BigQuotient(BigShiftLeft(m, s), d))

\* m * 10^e, m > 0, as (n + f) * 2^x.  10^e is 5^e * 2^e: for e >= 0 the
\* number is (m * 5^e) * 2^e; for e < 0 it is (m / 5^-e) * 2^e, and when 5^-e
\* divides m the quotient is a number of the checker.
decimal_parts(m, e) ==
    IF e >= 0 THEN [n |-> BigMul(Big(m), BigPow5(e)), e |-> e, sticky |-> FALSE]
    ELSE IF e >= 0 - 13 /\ m % Pow5(0 - e) = 0
    THEN [n |-> Big(m \div Pow5(0 - e)), e |-> e, sticky |-> FALSE]
    ELSE divide_parts(Big(m), BigPow5(0 - e), e,
                      Max(0, 55 + BitLen(BigPow5(0 - e)) - BitLen(Big(m))))

round_parts(sign, parts) == round_half_even(sign, parts.n, parts.e, parts.sticky)

\* The double nearest to sign * m * 10^e, 0 <= m < 2^31.  10^401 is past the
\* largest double, and 2^31 * 10^-401 is below half the smallest one.
to_double(sign, m, e) ==
    IF m = 0 THEN FloatZero
    ELSE IF e > 400 THEN FloatInf(sign)
    ELSE IF e < 0 - 400 THEN FloatZero
    ELSE round_parts(sign, decimal_parts(m, e))

\* the float of the decimal m * 10^e, as a literal of the source gives it
FloatNum(m, e) ==
    to_double(IF m < 0 THEN 0 - 1 ELSE 1, IF m < 0 THEN 0 - m ELSE m, e)

\* float(n) of a whole number
Float(n) == FloatNum(n, 0)

\* the decimal point and the exponent of a literal without sign: digits, an
\* optional "." with digits on at least one side, an optional exponent
decimal_literal(body) ==
    LET low   == lower(body)
        epos  == IndexOf("e", low, 1)
        mant  == IF epos = 0 THEN body ELSE SubSeq(body, 1, epos - 1)
        expo  == IF epos = 0 THEN <<>> ELSE SubSeq(body, epos + 1, Len(body))
        esgn  == expo # <<>> /\ Head(expo) \in {"-", "+"}
        edig  == IF esgn THEN Tail(expo) ELSE expo
        parts == split(mant, ".")
        whole == parts[1]
        frac  == IF Len(parts) = 2 THEN parts[2] ELSE <<>>
        digs  == whole \o frac
    IN  [ok |-> /\ Len(parts) \in {1, 2}
                /\ isdecimal(digs)
                /\ epos > 0 => isdecimal(edig),
         m  |-> IF isdecimal(digs) THEN DigitsValue(digs, 0) ELSE 0,
         e  |-> (IF epos > 0 /\ isdecimal(edig)
                 THEN (IF expo[1] = "-" THEN 0 - DigitsValue(edig, 0)
                       ELSE DigitsValue(edig, 0))
                 ELSE 0) - Len(frac)]

\* float(s): surrounding whitespace is ignored, one optional sign, then
\* "inf", "infinity" or "nan" in any case, or a decimal literal with single
\* underscores between digits; anything else raises ValueError (ok = FALSE).
float(s) ==
    LET t    == RStripOf(LStripOf(s, NumberSpace), NumberSpace)
        neg  == t # <<>> /\ Head(t) = "-"
        sgn  == t # <<>> /\ Head(t) \in {"-", "+"}
        body == IF sgn THEN Tail(t) ELSE t
        sign == IF neg THEN 0 - 1 ELSE 1
        lit  == decimal_literal(without_underscores(body))
    IN  IF lower(body) \in {<<"i", "n", "f">>,
                            <<"i", "n", "f", "i", "n", "i", "t", "y">>}
        THEN [ok |-> TRUE, val |-> FloatInf(sign)]
        ELSE IF lower(body) = <<"n", "a", "n">>
        THEN [ok |-> TRUE, val |-> FloatNaN]
        ELSE IF underscores_ok(body) /\ lit.ok
        THEN [ok |-> TRUE, val |-> to_double(sign, lit.m, lit.e)]
        ELSE [ok |-> FALSE, val |-> FloatNum(0, 0)]

\* `not x` of a float: only a zero is false (nan is true)
float_is_zero(x) == x.kind = "num" /\ x.mant = <<0>>

\* x < 0 of a float: false for nan and for a zero
float_is_negative(x) == x.kind # "nan" /\ x.sign < 0

\* the place above the highest binary digit of a finite x # 0:
\* 2^(float_top(x) - 1) <= |x| < 2^float_top(x)
float_top(x) == x.exp + BitLen(x.mant)

\* sx * a * 2^e + sy * b * 2^e, rounded: the sum of a and b under a common
\* sign, or their difference under the sign of the larger
add_aligned(sx, a, sy, b, e) ==
    round_half_even(IF sx = sy \/ ~BigLess(a, b) THEN sx ELSE sy,
                    IF sx = sy THEN BigAdd(a, b)
                    ELSE IF BigLess(a, b) THEN BigSub(b, a)
                    ELSE BigSub(a, b),
                    e, FALSE)

\* x + y of two floats, rounded as the processor rounds it (to the nearest
\* double, a tie to the even one).  Both numbers are whole multiples of 2^e
\* for the lower e of the two exponents, and the sum of the two multiples is
\* rounded.  A number 56 binary digits or more below the other is less than
\* an eighth of the other's last digit, and the sum rounds to the other.
float_add(x, y) ==
    IF x.kind = "nan" \/ y.kind = "nan" THEN FloatNaN
    ELSE IF x.kind = "inf" /\ y.kind = "inf"
    THEN (IF x.sign = y.sign THEN x ELSE FloatNaN)
    ELSE IF x.kind = "inf" THEN x
    ELSE IF y.kind = "inf" THEN y
    ELSE IF float_is_zero(x) THEN y
    ELSE IF float_is_zero(y) THEN x
    ELSE IF float_top(x) - float_top(y) >= 56 THEN x
    ELSE IF float_top(y) - float_top(x) >= 56 THEN y
    ELSE add_aligned(x.sign, BigShiftLeft(x.mant, x.exp - Min(x.exp, y.exp)),
                     y.sign, BigShiftLeft(y.mant, y.exp - Min(x.exp, y.exp)),
                     Min(x.exp, y.exp))

\* request.form.get(key, type=float): None (ok = FALSE) when the conversion raises
form_get_float(s) == float(s)

\* the outcomes of the commit that writes x into a Float NOT NULL column:
\* TRUE when the row is written, FALSE when the commit raises.  SQLite binds
\* nan as NULL, which the column forbids, and keeps an infinity; the MySQL
\* driver refuses to send either.
float_column_commit(x) ==
    IF x.kind = "nan" THEN {FALSE}
    ELSE IF x.kind = "inf" THEN {TRUE, FALSE}
    ELSE {TRUE}

-----------------------------------------------------------------------------
(* Dates.                                                                  *)

date(y, m, d) == [y |-> y, m |-> m, d |-> d]

\* Member.active_until is nullable
NoDate == date(0, 0, 0)

\* calendar.isleap
isleap(year) == (year % 4) = 0 /\ ((year % 100) # 0 \/ (year % 400) = 0)

\* calendar.monthrange(year, month)[1]: the number of days of the month
monthrange(year, month) ==
    IF month = 2 THEN (IF isleap(year) THEN 29 ELSE 28)
    ELSE IF month \in {4, 6, 9, 11} THEN 30 ELSE 31

DateLT(a, b) ==
    \/ a.y < b.y
    \/ a.y = b.y /\ a.m < b.m
    \/ a.y = b.y /\ a.m = b.m /\ a.d < b.d

DateLE(a, b) == a = b \/ DateLT(a, b)

\* a mutant of _add_months: no clamping, the surplus days spill into the next month
AddMonthsSpill(start_date, months) ==
    LET month_index == start_date.m - 1 + months
        year        == start_date.y + (month_index \div 12)
        month       == (month_index % 12) + 1
        n           == monthrange(year, month)
    IN  IF start_date.d <= n THEN date(year, month, start_date.d)
        ELSE IF month = 12 THEN date(year + 1, 1, start_date.d - n)
        ELSE date(year, month + 1, start_date.d - n)

\* cashier._add_months
_add_months(start_date, months) ==
    LET month_index == start_date.m - 1 + months
        year        == start_date.y + (month_index \div 12)
        month       == (month_index % 12) + 1
        day         == Min(start_date.d, monthrange(year, month))
    IN  date(year, month, day)

Years == YearBase .. (YearBase + YearSpan)

ValidDate(dt) ==
    /\ dt.m \in 1..12
    /\ dt.d \in 1..monthrange(dt.y, dt.m)

AllDates == {dt \in [y : Years, m : 1..12, d : 1..31] : ValidDate(dt)}

-----------------------------------------------------------------------------
(* The gym database and its handlers.                                      *)

\* the server's zone: west of UTC, UTC, east of UTC
Zones == {0 - 1, 0, 1}

\* the local days the clocks are sampled at: the end of January and of
\* February of the first year and the end of February of the second (Jan 31
\* + 1 month is clamped, and the clamped date is itself a request time, so
\* active_until = today happens; a year later every one-year term has lapsed)
ClockDates ==
    {dt \in AllDates : /\ dt.d = monthrange(dt.y, dt.m)
                       /\ \/ dt.y = YearBase /\ dt.m \in {1, 2}
                          \/ dt.y = YearBase + 1 /\ dt.m = 2}

\* the record of what the last request did: the ids it resolved (0 for None)
\* and, for a request that went through, the dates and the duration it used
Last(op, ok, member_id, package_id, before, after, months) ==
    [op |-> op, ok |-> ok, member_id |-> member_id, package_id |-> package_id,
     before |-> before, after |-> after, months |-> months, raised |-> FALSE]

\* the response of a request that was refused: its flash messages are not kept
Refused(op) == Last(op, FALSE, 0, 0, NoDate, NoDate, 0)

\* the response to a request whose view raised an exception it does not
\* catch: HTTP 500, and the session of the request is rolled back
Raised(op) == [Refused(op) EXCEPT !.raised = TRUE]

NoLast == [op |-> "none", ok |-> FALSE, member_id |-> 0, package_id |-> 0,
           before |-> NoDate, after |-> NoDate, months |-> 0, raised |-> FALSE]

\* the place of a deleted row: ids are positions, and the id of a deleted row
\* below the largest id in use is not given again
NoRow == [deleted |-> TRUE]

\* the row with this id exists
has_row(table, id) == id \in 1..Len(table) /\ table[id] # NoRow

\* the outcome of an expression that raises ValueError, where a row id or 0
\* (for None) is expected
ValueError == 0 - 1

\* db.session.get(Model, int(raw)) if raw.isdigit() else None; 0 stands for
\* None.  A superscript digit passes isdigit() and int() raises on it.
get_id(table, raw) ==
    IF ~isdigit(raw) THEN 0
    ELSE IF ~int(raw).ok THEN ValueError
    ELSE IF has_row(table, int(raw).val) THEN int(raw).val ELSE 0

\* db.session.get(Exercise, int(raw)) if raw.isdigit() else None, on a set of ids
get_id_in(ids, raw) ==
    IF ~isdigit(raw) THEN 0
    ELSE IF ~int(raw).ok THEN ValueError
    ELSE IF int(raw).val \in ids THEN int(raw).val ELSE 0

\* form values
NameInputs     == {<<" ">>, <<"G">>}
DurationInputs == {<<"x">>, <<"-", "1">>, <<"0">>, <<"1">>, <<"1", "2">>}
PriceInputs    == {<<"0">>, <<"5">>, <<"7", ".", "5">>, <<"n", "a", "n">>}
IdInputs       == {<<"x">>, <<"1">>, <<" ", "2">>, <<"²">>}
EmailInputs    == {<<"a">>, <<"b", " ">>}
DobGood        == <<"1", "9", "9", "0", "-", "0", "5", "-", "1", "5">>
DobInputs      == {<<>>, <<"1", "9", "9", "0", "-", "0", "2", "-", "3", "0">>,
                   <<"1", "9", "9", "0", "-", "5", "-", " ", "5">>}

\* a mutant of package_form_error: the duration check is missing
PackageFormErrorNoDuration(name, duration_months, price) ==
    IF strip(name) = <<>> THEN "name"
    ELSE IF ~duration_months.ok THEN "duration"
    ELSE IF ~price.ok \/ float_is_zero(price.val) \/ float_is_negative(price.val)
    THEN "price"
    ELSE ""

\* the validation shared by admin.create_package and admin.update_package:
\* the flash message of the first failing check, or "" when the form is valid
package_form_error(name, duration_months, price) ==
    IF strip(name) = <<>> THEN "name"
    ELSE IF ~duration_months.ok \/ duration_months.val = 0 \/ duration_months.val < 1
    THEN "duration"
    ELSE IF ~price.ok \/ float_is_zero(price.val) \/ float_is_negative(price.val)
    THEN "price"
    ELSE ""

\* admin.create_package
create_package(name, duration_raw, price_raw) ==
    LET duration_months == form_get_int(duration_raw)
        price           == form_get_float(price_raw)
        err             == package_form_error(name, duration_months, price)
    IN  /\ last = NoLast
        /\ Len(packages) < MaxPackages
        /\ \E written_ok \in float_column_commit(price.val) :
           IF err # ""
           THEN /\ packages' = packages
                /\ last' = Refused("create_package")
           ELSE IF ~written_ok
           THEN /\ packages' = packages
                /\ last' = Raised("create_package")
           ELSE /\ packages' = Append(packages,
                                      [name |-> strip(name),
                                       duration_months |-> duration_months.val,
                                       price |-> price.val])
                /\ last' = Last("create_package", TRUE, 0, Len(packages) + 1,
                                NoDate, NoDate, duration_months.val)
        /\ UNCHANGED <<clockVars, members, invoices, dateVars, planVars, revVars,
                   authVars, txVars>>

\* a mutant of update_package: the new price is also written into the
\* invoices of the package
UpdatePackageRepricesInvoices(id, name, duration_raw, price_raw) ==
    LET duration_months == form_get_int(duration_raw)
        price           == form_get_float(price_raw)
        err             == package_form_error(name, duration_months, price)
    IN  /\ last = NoLast
        /\ has_row(packages, id)
        /\ \E written_ok \in float_column_commit(price.val) :
           IF err # ""
           THEN /\ packages' = packages
                /\ invoices' = invoices
                /\ last' = Refused("update_package")
           ELSE IF ~written_ok
           THEN /\ packages' = packages
                /\ invoices' = invoices
                /\ last' = Raised("update_package")
           ELSE /\ packages' = [packages EXCEPT ![id] =
                                      [name |-> strip(name),
                                       duration_months |-> duration_months.val,
                                       price |-> price.val]]
                /\ invoices' = [i \in 1..Len(invoices) |->
                                   IF invoices[i].package_id = id
                                   THEN [invoices[i] EXCEPT !.amount = price.val]
                                   ELSE invoices[i]]
                /\ last' = Last("update_package", TRUE, 0, id,
                                NoDate, NoDate, duration_months.val)
        /\ UNCHANGED <<clockVars, members, dateVars, planVars, revVars, authVars, txVars>>

\* admin.update_package
update_package(id, name, duration_raw, price_raw) ==
    LET duration_months == form_get_int(duration_raw)
        price           == form_get_float(price_raw)
        err             == package_form_error(name, duration_months, price)
    IN  /\ last = NoLast
        /\ has_row(packages, id)            \* get_or_404
        /\ \E written_ok \in float_column_commit(price.val) :
           IF err # ""
           THEN /\ packages' = packages
                /\ last' = Refused("update_package")
           ELSE IF ~written_ok
           THEN /\ packages' = packages
                /\ last' = Raised("update_package")
           ELSE /\ packages' = [packages EXCEPT ![id] =
                                      [name |-> strip(name),
                                       duration_months |-> duration_months.val,
                                       price |-> price.val]]
                /\ last' = Last("update_package", TRUE, 0, id,
                                NoDate, NoDate, duration_months.val)
        /\ UNCHANGED <<clockVars, members, invoices, dateVars, planVars, revVars,
                   authVars, txVars>>

\* the table without the deleted rows at its end: the next id is one more
\* than the largest id in use (SQLite, the database of the tests)
RECURSIVE trim(_)
trim(table) ==
    IF table # <<>> /\ table[Len(table)] = NoRow
    THEN trim(SubSeq(table, 1, Len(table) - 1)) ELSE table

\* Invoice.query.filter_by(package_id=id).count()
invoice_count(id) == Cardinality({i \in 1..Len(invoices) : invoices[i].package_id = id})

\* admin.delete_package
delete_package(id) ==
    /\ last = NoLast
    /\ has_row(packages, id)                \* get_or_404
    /\ IF invoice_count(id) > 0
       THEN /\ packages' = packages
            /\ last' = Refused("delete_package")
       ELSE /\ packages' = trim([packages EXCEPT ![id] = NoRow])
            /\ last' = Last("delete_package", TRUE, 0, id, NoDate, NoDate, 0)
    /\ UNCHANGED <<clockVars, members, invoices, dateVars, planVars, revVars,
                   authVars, txVars>>

\* datetime.strptime(raw, "%Y-%m-%d") matches raw against the expression
\*   (\d\d\d\d)-(1[0-2]|0[1-9]|[1-9])-(3[0-1]|[1-2]\d|0[1-9]|[1-9]| [1-9])
\* and raises ValueError when it does not match, when text remains after the
\* match, and when the three numbers are not a date (year 0, February 30).
nonzero_decimal(c) == IsDecimalChar(c) /\ c # "0"

month_field_ok(p) ==
    \/ Len(p) = 2 /\ p[1] = "1" /\ p[2] \in {"0", "1", "2"}
    \/ Len(p) = 2 /\ p[1] = "0" /\ nonzero_decimal(p[2])
    \/ Len(p) = 1 /\ nonzero_decimal(p[1])

day_field_ok(p) ==
    \/ Len(p) = 2 /\ p[1] = "3" /\ p[2] \in {"0", "1"}
    \/ Len(p) = 2 /\ p[1] \in {"1", "2"} /\ IsDecimalChar(p[2])
    \/ Len(p) = 2 /\ p[1] = "0" /\ nonzero_decimal(p[2])
    \/ Len(p) = 1 /\ nonzero_decimal(p[1])
    \/ Len(p) = 2 /\ p[1] = " " /\ nonzero_decimal(p[2])

strptime_ok(raw) ==
    LET parts == split(raw, "-")
    IN  /\ Len(parts) = 3
        /\ Len(parts[1]) = 4 /\ isdecimal(parts[1])
        /\ month_field_ok(parts[2])
        /\ day_field_ok(parts[3])
        /\ int(parts[1]).val >= 1
        /\ int(parts[3]).val <= monthrange(int(parts[1]).val, int(parts[2]).val)

\* a mutant of relativedelta_months: the end-of-month convention, by which a
\* start on the last day of its month gives the last day of the target month
RelativeDeltaEndOfMonth(dt, n) ==
    LET total == dt.m + n
        year  == dt.y + ((total - 1) \div 12)
        month == ((total - 1) % 12) + 1
    IN  IF dt.d = monthrange(dt.y, dt.m)
        THEN date(year, month, monthrange(year, month))
        ELSE date(year, month, Min(dt.d, monthrange(year, month)))

\* date + relativedelta(months=n) as dateutil computes it: the constructor
\* turns more than 11 months into years and months, the addition moves the
\* year and the month, carries once across the year end, and cuts the day to
\* the length of the target month
relativedelta_months(dt, n) ==
    LET sign   == IF n < 0 THEN 0 - 1 ELSE 1
        fix    == n * sign > 11
        years  == IF fix THEN sign * ((n * sign) \div 12) ELSE 0
        months == IF fix THEN sign * ((n * sign) % 12) ELSE n
        moved  == dt.m + months
        year   == dt.y + years
                  + (IF moved > 12 THEN 1 ELSE IF moved < 1 THEN 0 - 1 ELSE 0)
        month  == IF moved > 12 THEN moved - 12
                  ELSE IF moved < 1 THEN moved + 12 ELSE moved
        day    == Min(monthrange(year, month), dt.d)
    IN  date(year, month, day)

\* a mutant of email_taken: the email is never looked up
EmailTakenNever(email) == FALSE

\* Member.query.filter_by(email=email).first()
email_taken(email) == \E i \in 1..Len(members) : members[i].email = email

\* the errors list of reception.register / auth.public_register
register_errors(f) ==
    LET full_name  == strip(f.full_name)
        gender     == strip(f.gender)
        dob_raw    == strip(f.dob)
        phone      == strip(f.phone)
        email      == strip(f.email)
        package_id == strip(f.package_id)
    IN  (IF full_name = <<>> THEN <<"full_name">> ELSE <<>>)
        \o (IF gender = <<>> THEN <<"gender">> ELSE <<>>)
        \o (IF dob_raw = <<>> THEN <<"dob">> ELSE <<>>)
        \o (IF phone = <<>> THEN <<"phone">> ELSE <<>>)
        \o (IF email = <<>> THEN <<"email">> ELSE <<>>)
        \o (IF package_id = <<>> THEN <<"package_id">> ELSE <<>>)
        \o (IF dob_raw # <<>> /\ ~strptime_ok(dob_raw) THEN <<"dob_format">> ELSE <<>>)
        \o (IF get_id(packages, package_id) = 0 THEN <<"package">> ELSE <<>>)
        \o (IF email_taken(email) THEN <<"email_taken">> ELSE <<>>)

\* a mutant of register_post: the member is stored without an invoice
RegisterPostWithoutInvoice(op, f) ==
    LET errors     == register_errors(f)
        package_id == get_id(packages, strip(f.package_id))
        registration_date == utcnow
        active_until ==
            relativedelta_months(registration_date, packages[package_id].duration_months)
        member_id  == Len(members) + 1
    IN  IF package_id = ValueError
        THEN /\ last' = Raised(op)                 \* int() at the package lookup
             /\ UNCHANGED <<members, invoices>>
        ELSE IF errors # <<>>
        THEN /\ last' = Refused(op)
             /\ UNCHANGED <<members, invoices>>
        ELSE /\ Len(members) < MaxMembers
             /\ Len(invoices) < MaxInvoices
             /\ active_until.y <= YearBase + YearSpan
             /\ members' = Append(members,
                                  [email |-> strip(f.email),
                                   registration_date |-> registration_date,
                                   active_until |-> active_until])
             /\ invoices' = invoices
             /\ last' = Last(op, TRUE, member_id, package_id, NoDate, active_until,
                             packages[package_id].duration_months)

\* the POST branch of reception.register and of auth.public_register, which
\* are the same statements; the table member of the model has room for
\* `room` rows
register_rows(op, f, room) ==
    LET errors     == register_errors(f)
        package_id == get_id(packages, strip(f.package_id))
        registration_date == utcnow
        active_until ==
            relativedelta_months(registration_date, packages[package_id].duration_months)
        member_id  == Len(members) + 1
    IN  IF package_id = ValueError
        THEN /\ last' = Raised(op)                 \* int() at the package lookup
             /\ UNCHANGED <<members, invoices>>
        ELSE IF errors # <<>>
        THEN /\ last' = Refused(op)
             /\ UNCHANGED <<members, invoices>>
        ELSE /\ Len(members) < room
             /\ Len(invoices) < MaxInvoices
             /\ active_until.y <= YearBase + YearSpan
             /\ members' = Append(members,
                                  [email |-> strip(f.email),
                                   registration_date |-> registration_date,
                                   active_until |-> active_until])
             /\ invoices' = Append(invoices,
                                   [member_id |-> member_id,
                                    package_id |-> package_id,
                                    amount |-> packages[package_id].price,
                                    created_at |-> utcnow])
             /\ last' = Last(op, TRUE, member_id, package_id, NoDate, active_until,
                             packages[package_id].duration_months)

\* the POST branch with the table of Spec
register_post(op, f) == register_rows(op, f, MaxMembers)

\* the registration forms: a valid form and its one-field variations
RegForm(full_name, gender, dob, phone, email, package_id) ==
    [full_name |-> full_name, gender |-> gender, dob |-> dob, phone |-> phone,
     email |-> email, package_id |-> package_id]

RegForms ==
    {RegForm(<<"a">>, <<"a">>, DobGood, <<"a">>, e, p) :
         e \in EmailInputs, p \in IdInputs}
    \cup {RegForm(<<>>, <<"a">>, DobGood, <<"a">>, <<"a">>, <<"1">>),
          RegForm(<<"a">>, <<" ">>, DobGood, <<"a">>, <<"a">>, <<"1">>),
          RegForm(<<"a">>, <<"a">>, DobGood, <<>>, <<"a">>, <<"1">>),
          RegForm(<<"a">>, <<"a">>, DobGood, <<"a">>, <<>>, <<"1">>)}
    \cup {RegForm(<<"a">>, <<"a">>, d, <<"a">>, <<"a">>, <<"1">>) : d \in DobInputs}

\* reception.register
register(f) ==
    /\ last = NoLast
    /\ register_post("register", f)
    /\ UNCHANGED <<clockVars, packages, dateVars, planVars, revVars, authVars, txVars>>

\* auth.public_register
public_register(f) ==
    /\ last = NoLast
    /\ register_post("register", f)
    /\ UNCHANGED <<clockVars, packages, dateVars, planVars, revVars, authVars, txVars>>

\* a mutant of base_date: the extension is always anchored on today
BaseDateAlwaysToday(active_until, today_) == today_

\* a mutant of base_date: the stored date is the anchor whenever there is one
BaseDateAlwaysStored(active_until, today_) ==
    IF active_until # NoDate THEN active_until ELSE today_

\* cashier.payment, lines 56-58: the anchor of the extension
base_date(active_until, today_) ==
    IF active_until # NoDate /\ DateLE(today_, active_until)
    THEN active_until ELSE today_

\* a mutant of payment: the membership is extended without an invoice
PaymentWithoutInvoice(member_raw, package_raw) ==
    LET member_id  == get_id(members, strip(member_raw))
        package_id == get_id(packages, strip(package_raw))
        member     == members[member_id]
        package    == packages[package_id]
        new_until  == _add_months(base_date(member.active_until, today),
                                  package.duration_months)
    IN  /\ last = NoLast
        /\ IF member_id = ValueError \/ package_id = ValueError
           THEN /\ last' = Raised("payment")
                /\ UNCHANGED <<members, invoices>>
           ELSE IF member_id = 0 \/ package_id = 0
           THEN /\ last' = Last("payment", FALSE, member_id, package_id,
                                NoDate, NoDate, 0)
                /\ UNCHANGED <<members, invoices>>
           ELSE /\ new_until.y <= YearBase + YearSpan
                /\ invoices' = invoices
                /\ members' = [members EXCEPT ![member_id].active_until = new_until]
                /\ last' = Last("payment", TRUE, member_id, package_id,
                                member.active_until, new_until,
                                package.duration_months)
        /\ UNCHANGED <<clockVars, packages, dateVars, planVars, revVars, authVars, txVars>>

\* cashier.payment, POST
payment(member_raw, package_raw) ==
    LET member_id  == get_id(members, strip(member_raw))
        package_id == get_id(packages, strip(package_raw))
        errors     == (IF member_id = 0 THEN <<"member">> ELSE <<>>)
                      \o (IF package_id = 0 THEN <<"package">> ELSE <<>>)
        member     == members[member_id]
        package    == packages[package_id]
        new_until  == _add_months(base_date(member.active_until, today),
                                  package.duration_months)
    IN  /\ last = NoLast
        /\ IF member_id = ValueError \/ package_id = ValueError
           THEN /\ last' = Raised("payment")       \* int() at line 37 or 41
                /\ UNCHANGED <<members, invoices>>
           ELSE IF errors # <<>>
           THEN /\ last' = Last("payment", FALSE, member_id, package_id,
                                NoDate, NoDate, 0)
                /\ UNCHANGED <<members, invoices>>
           ELSE /\ Len(invoices) < MaxInvoices
                /\ new_until.y <= YearBase + YearSpan
                /\ invoices' = Append(invoices,
                                      [member_id |-> member_id,
                                       package_id |-> package_id,
                                       amount |-> package.price,
                                       created_at |-> utcnow])
                /\ members' = [members EXCEPT ![member_id].active_until = new_until]
                /\ last' = Last("payment", TRUE, member_id, package_id,
                                member.active_until, new_until,
                                package.duration_months)
        /\ UNCHANGED <<clockVars, packages, dateVars, planVars, revVars, authVars, txVars>>

\* the day after and the day before a date
next_day(dt) ==
    IF dt.d < monthrange(dt.y, dt.m) THEN date(dt.y, dt.m, dt.d + 1)
    ELSE IF dt.m < 12 THEN date(dt.y, dt.m + 1, 1)
    ELSE date(dt.y + 1, 1, 1)

prev_day(dt) ==
    IF dt.d > 1 THEN date(dt.y, dt.m, dt.d - 1)
    ELSE IF dt.m > 1 THEN date(dt.y, dt.m - 1, monthrange(dt.y, dt.m - 1))
    ELSE date(dt.y - 1, 12, 31)

\* the UTC dates datetime.utcnow() can show at a moment date.today() shows
\* local: the same date, or, in a zone east of UTC, the day before, and in a
\* zone west of UTC, the day after
utc_dates(local, zone) ==
    IF zone = 0 THEN {local}
    ELSE IF zone = 1 THEN {local, prev_day(local)}
    ELSE {local, next_day(local)}

\* the readings of the two clocks at the request times of a set of days
Clocks(days, zones) ==
    UNION {{[today |-> d, utcnow |-> u, tz |-> z] :
               u \in {x \in utc_dates(d, z) : x.y \in Years}} :
           d \in days, z \in zones}

\* the readings of Spec: in a zone off UTC its requests arrive in the hours
\* of the day in which the two dates differ
SpecClocks(zones) ==
    {c \in Clocks(ClockDates, zones) : c.tz # 0 => c.utcnow # c.today}

\* the two clocks show one of the given readings
InitReadings(readings) ==
    \E c \in readings : today = c.today /\ utcnow = c.utcnow /\ tz = c.tz

InitClock(days, zones) == InitReadings(Clocks(days, zones))

\* the response has been delivered and the next request arrives, at the same
\* moment or at a later request time: neither clock runs backwards, and the
\* zone of the server stays
Tick(readings) ==
    /\ last # NoLast
    /\ \E c \in {x \in readings : x.tz = tz} :
           /\ DateLE(today, c.today)
           /\ DateLE(utcnow, c.utcnow)
           /\ today' = c.today
           /\ utcnow' = c.utcnow
    /\ last' = NoLast
    /\ UNCHANGED <<tz, packages, members, invoices, dateVars, planVars, revVars,
                   authVars, txVars>>

-----------------------------------------------------------------------------
(* System settings and workout plans.                                      *)

\* str(n) of an integer: its decimal digits
RECURSIVE NatStr(_)
NatStr(n) == IF n < 10 THEN <<Decimals[n + 1]>>
             ELSE Append(NatStr(n \div 10), Decimals[(n % 10) + 1])

str(n) == IF n < 0 THEN <<"-">> \o NatStr(0 - n) ELSE NatStr(n)

RECURSIVE FirstRow(_, _, _)
FirstRow(rows, key, i) ==
    IF i > Len(rows) THEN 0
    ELSE IF rows[i].key = key THEN i ELSE FirstRow(rows, key, i + 1)

\* SystemConfig.get_config
get_config(key, default) ==
    LET i == FirstRow(config, key, 1)
    IN  IF i # 0 THEN config[i].value ELSE default

\* a mutant of set_config: a new row is added although the key has one
SetConfigAlwaysAdds(key, value) == Append(config, [key |-> key, value |-> value])

\* SystemConfig.set_config: the table after the commit
set_config(key, value) ==
    LET i == FirstRow(config, key, 1)
    IN  IF i # 0 THEN [config EXCEPT ![i].value = value]
        ELSE Append(config, [key |-> key, value |-> value])

SettingInputs == {<<>>, <<"x">>, <<"0">>, <<"8">>} \cup {<<Decimals[k + 1]>> : k \in 1..7}

\* flask.redirect(url_for(...)) and flask.render_template(...)
redirect(path)        == [status |-> "redirect", path |-> path]
render_template(path) == [status |-> "page", path |-> path]

\* admin.update_settings
update_settings(raw) ==
    LET max_training_days == form_get_int(raw)
    IN  /\ resp.status = "none"
        /\ IF ~max_training_days.ok \/ max_training_days.val < 1
                                    \/ max_training_days.val > 7
           THEN /\ config' = config
                /\ written' = written
           ELSE /\ config' = set_config("max_training_days", str(max_training_days.val))
                /\ written' = str(max_training_days.val)
        /\ location' = redirect("/admin/settings")      \* lines 262 and 271
        /\ UNCHANGED <<exercises, form, plans, resp, gymVars, dateVars, revVars,
                   users, current_user, txVars>>

\* a flash message; the day-cap message carries the two formatted numbers
Msg(kind) == [kind |-> kind, max |-> <<>>, count |-> <<>>]

\* a mutant of day_tokens: the tokens are trimmed but keep their case
DayTokensCaseSensitive(schedule_day) ==
    LET parts == split(schedule_day, ",")
    IN  {strip(parts[k]) : k \in 1..Len(parts)} \ {<<>>}

\* the normalized day tokens of one schedule_days[] field (lines 97-100)
day_tokens(schedule_day) ==
    LET parts == split(schedule_day, ",")
    IN  {lower(strip(parts[k])) : k \in 1..Len(parts)} \ {<<>>}

\* the validation of one row (lines 82-95): the error it adds, or "", or
\* "ValueError" when int() at line 86 raises, which no handler catches
row_error(exercise_id, sets_value, reps_value, schedule_day) ==
    IF exercise_id = <<>> \/ sets_value = <<>> \/ reps_value = <<>> \/ schedule_day = <<>>
    THEN "row_incomplete"
    ELSE IF get_id_in(exercises, exercise_id) = ValueError THEN "ValueError"
    ELSE IF get_id_in(exercises, exercise_id) = 0 THEN "exercise_not_found"
    ELSE IF ~int(sets_value).ok THEN "sets_invalid"
    ELSE ""

\* a mutant of plan_rows: the days of a row are collected before the row is
\* validated, so that a refused row still counts for the cap
RECURSIVE PlanRowsDaysBeforeChecks(_, _, _)
PlanRowsDaysBeforeChecks(f, i, acc) ==
    IF i > Min(Min(Len(f.exercises), Len(f.sets)),
               Min(Len(f.reps), Len(f.schedule_days)))
    THEN acc
    ELSE LET err  == row_error(f.exercises[i], f.sets[i], f.reps[i], f.schedule_days[i])
             days == [acc EXCEPT !.unique_days = @ \cup day_tokens(f.schedule_days[i])]
         IN  IF err = "ValueError" THEN [acc EXCEPT !.raised = TRUE]
             ELSE IF err # ""
             THEN PlanRowsDaysBeforeChecks(f, i + 1,
                    [days EXCEPT !.errors = Append(@, Msg(err))])
             ELSE PlanRowsDaysBeforeChecks(f, i + 1,
                    [days EXCEPT !.details = Append(@,
                           [exercise_id  |-> int(f.exercises[i]).val,
                            sets         |-> int(f.sets[i]).val,
                            reps         |-> strip(f.reps[i]),
                            schedule_day |-> strip(f.schedule_days[i])])])

\* the for loop over zip(exercise_ids, sets_list, reps_list, schedule_days)
RECURSIVE plan_rows(_, _, _)
plan_rows(f, i, acc) ==
    IF i > Min(Min(Len(f.exercises), Len(f.sets)),
               Min(Len(f.reps), Len(f.schedule_days)))
    THEN acc
    ELSE LET exercise_id  == f.exercises[i]
             sets_value   == f.sets[i]
             reps_value   == f.reps[i]
             schedule_day == f.schedule_days[i]
             err == row_error(exercise_id, sets_value, reps_value, schedule_day)
         IN  IF err = "ValueError" THEN [acc EXCEPT !.raised = TRUE]
             ELSE IF err # ""
             THEN plan_rows(f, i + 1, [acc EXCEPT !.errors = Append(@, Msg(err))])
             ELSE plan_rows(f, i + 1,
                    [acc EXCEPT
                       !.unique_days = @ \cup day_tokens(schedule_day),
                       !.details = Append(@,
                           [exercise_id  |-> int(exercise_id).val,
                            sets         |-> int(sets_value).val,
                            reps         |-> strip(reps_value),
                            schedule_day |-> strip(schedule_day)])])

\* lines 111-115: the configured cap, 6 when the stored value is no integer
max_training_days_now ==
    LET v == int(get_config("max_training_days", <<"6">>))
    IN  IF v.ok THEN v.val ELSE 6

\* a mutant of too_many_days: a plan that uses the cap exactly is refused
TooManyDaysAtCap(n, max_training_days) == n >= max_training_days

\* line 117
too_many_days(n, max_training_days) == n > max_training_days

\* a mutant of plan_rejected: a submission without valid rows goes through
PlanRejectedOnErrorsOnly(errors, details) == errors # <<>>

\* line 123
plan_rejected(errors, details) == errors # <<>> \/ details = <<>>

\* a mutant of plans_after: the valid rows are saved although the plan is refused
PlansAfterPartialSave(member_id, notes, rejected, details) ==
    IF details = <<>> THEN plans
    ELSE Append(plans, [member_id |-> member_id, trainer_id |-> current_user,
                        notes |-> notes, workout_details |-> details])

\* lines 123-139: the tables workout_plan / workout_detail after the request
plans_after(member_id, notes, rejected, details) ==
    IF rejected THEN plans
    ELSE Append(plans, [member_id |-> member_id, trainer_id |-> current_user,
                        notes |-> notes, workout_details |-> details])

\* trainer.create_plan, POST, of the form in flight
create_plan(member_id) ==
    /\ resp.status = "none"
    /\ IF member_id \notin 1..Len(members)
       THEN /\ resp' = [status |-> "no_member", errors |-> <<Msg("member_not_found")>>]
            /\ plans' = plans
       ELSE LET e0   == IF form.exercises = <<>> THEN <<Msg("no_exercise")>> ELSE <<>>
                acc  == plan_rows(form, 1,
                            [errors |-> e0, details |-> <<>>, unique_days |-> {},
                             raised |-> FALSE])
                max_training_days == max_training_days_now
                n    == Cardinality(acc.unique_days)
                e1   == IF too_many_days(n, max_training_days)
                        THEN Append(acc.errors,
                                    [kind |-> "too_many_days",
                                     max |-> str(max_training_days),
                                     count |-> str(n)])
                        ELSE acc.errors
                rejected == plan_rejected(e1, acc.details)
                e2   == IF acc.details = <<>> /\ e1 = <<>>
                        THEN Append(e1, Msg("no_exercise")) ELSE e1
            IN  IF acc.raised                     \* HTTP 500, nothing is saved
                THEN /\ plans' = plans
                     /\ resp' = [status |-> "raised", errors |-> <<>>]
                ELSE /\ plans' = plans_after(member_id, strip(form.notes), rejected,
                                             acc.details)
                     /\ resp' = IF rejected
                                THEN [status |-> "rejected", errors |-> e2]
                                ELSE [status |-> "created", errors |-> <<>>]
    /\ UNCHANGED <<config, written, exercises, form, gymVars, dateVars, revVars,
                   authVars, txVars>>

-----------------------------------------------------------------------------
(* SpecDate: _add_months as a pure function.                               *)

InitGymIdle ==
    /\ InitClock({date(YearBase, 1, 31)}, {0})
    /\ packages = <<>>
    /\ members = <<>>
    /\ invoices = <<>>
    /\ last = NoLast

InitDateIdle ==
    /\ fn_in = [start_date |-> NoDate, months |-> 0]
    /\ fn_out = NoDate

InitPlanIdle ==
    /\ config = <<>>
    /\ written = <<>>
    /\ exercises = {}
    /\ form = [notes |-> <<>>, exercises |-> <<>>, sets |-> <<>>,
               reps |-> <<>>, schedule_days |-> <<>>]
    /\ plans = <<>>
    /\ resp = [status |-> "none", errors |-> <<>>]

InitRevIdle == revenue = [status |-> "none", data |-> <<>>]

\* the seed_db command (app/__init__.py) adds the packages, the exercises
\* and the configuration row in the commit that adds its users
seed_db_packages ==
    <<[name |-> <<"1", " ", "M", "o", "n", "t", "h">>, duration_months |-> 1, price |-> Float(500000)],
      [name |-> <<"3", " ", "M", "o", "n", "t", "h", "s">>, duration_months |-> 3, price |-> Float(1200000)],
      [name |-> <<"6", " ", "M", "o", "n", "t", "h", "s">>, duration_months |-> 6, price |-> Float(2000000)],
      [name |-> <<"1", "2", " ", "M", "o", "n", "t", "h", "s">>, duration_months |-> 12, price |-> Float(3500000)]>>

seed_db_exercises == {1, 2, 3}

seed_db_config == <<[key |-> "max_training_days", value |-> <<"6">>]>>

\* the users of the seed_db command (app/__init__.py)
seed_db ==
    <<[username |-> <<"a", "d", "m", "i", "n">>,
      email |-> <<"a", "d", "m", "i", "n", "@", "e", "x", "a", "m", "p", "l", "e", ".", "c", "o", "m">>,
      password |-> <<"a", "d", "m", "i", "n", "1", "2", "3">>,
      role |-> <<"a", "d", "m", "i", "n">>, is_active |-> TRUE],
      [username |-> <<"r", "e", "c", "e", "p", "t", "i", "o", "n", "i", "s", "t">>,
      email |-> <<"r", "e", "c", "e", "p", "t", "i", "o", "n", "@", "e", "x", "a", "m", "p", "l", "e", ".", "c", "o", "m">>,
      password |-> <<"r", "e", "c", "e", "p", "t", "i", "o", "n", "1", "2", "3">>,
      role |-> <<"r", "e", "c", "e", "p", "t", "i", "o", "n", "i", "s", "t">>, is_active |-> TRUE],
      [username |-> <<"t", "r", "a", "i", "n", "e", "r">>,
      email |-> <<"t", "r", "a", "i", "n", "e", "r", "@", "e", "x", "a", "m", "p", "l", "e", ".", "c", "o", "m">>,
      password |-> <<"t", "r", "a", "i", "n", "e", "r", "1", "2", "3">>,
      role |-> <<"t", "r", "a", "i", "n", "e", "r">>, is_active |-> TRUE],
      [username |-> <<"c", "a", "s", "h", "i", "e", "r">>,
      email |-> <<"c", "a", "s", "h", "i", "e", "r", "@", "e", "x", "a", "m", "p", "l", "e", ".", "c", "o", "m">>,
      password |-> <<"c", "a", "s", "h", "i", "e", "r", "1", "2", "3">>,
      role |-> <<"c", "a", "s", "h", "i", "e", "r">>, is_active |-> TRUE]>>

\* the users of seed_data.seed_users
seed_users ==
    <<[username |-> <<"a", "d", "m", "i", "n">>,
      email |-> <<"a", "d", "m", "i", "n", "@", "g", "y", "m", ".", "c", "o", "m">>,
      password |-> <<"a", "d", "m", "i", "n", "1", "2", "3">>,
      role |-> <<"a", "d", "m", "i", "n">>, is_active |-> TRUE],
      [username |-> <<"t", "r", "a", "i", "n", "e", "r", "1">>,
      email |-> <<"t", "r", "a", "i", "n", "e", "r", "1", "@", "g", "y", "m", ".", "c", "o", "m">>,
      password |-> <<"t", "r", "a", "i", "n", "e", "r", "1", "2", "3">>,
      role |-> <<"t", "r", "a", "i", "n", "e", "r">>, is_active |-> TRUE],
      [username |-> <<"t", "r", "a", "i", "n", "e", "r", "2">>,
      email |-> <<"t", "r", "a", "i", "n", "e", "r", "2", "@", "g", "y", "m", ".", "c", "o", "m">>,
      password |-> <<"t", "r", "a", "i", "n", "e", "r", "1", "2", "3">>,
      role |-> <<"t", "r", "a", "i", "n", "e", "r">>, is_active |-> TRUE],
      [username |-> <<"c", "a", "s", "h", "i", "e", "r">>,
      email |-> <<"c", "a", "s", "h", "i", "e", "r", "@", "g", "y", "m", ".", "c", "o", "m">>,
      password |-> <<"c", "a", "s", "h", "i", "e", "r", "1", "2", "3">>,
      role |-> <<"c", "a", "s", "h", "i", "e", "r">>, is_active |-> TRUE],
      [username |-> <<"r", "e", "c", "e", "p", "t", "i", "o", "n">>,
      email |-> <<"r", "e", "c", "e", "p", "t", "i", "o", "n", "@", "g", "y", "m", ".", "c", "o", "m">>,
      password |-> <<"r", "e", "c", "e", "p", "t", "i", "o", "n", "1", "2", "3">>,
      role |-> <<"r", "e", "c", "e", "p", "t", "i", "o", "n">>, is_active |-> TRUE]>>

\* date + timedelta(days=n), n >= 0: the days are counted off month by month
RECURSIVE timedelta_days(_, _)
timedelta_days(dt, n) ==
    LET left == monthrange(dt.y, dt.m) - dt.d
    IN  IF n <= left THEN date(dt.y, dt.m, dt.d + n)
        ELSE timedelta_days(IF dt.m < 12 THEN date(dt.y, dt.m + 1, 1)
                            ELSE date(dt.y + 1, 1, 1),
                            n - left - 1)

\* What seed_data.seed_all commits after seed_users (seed_data.py): four
\* packages, ten exercises, five members active for 90 days, one invoice for
\* each member, a plan for each of the first three members, and four
\* settings.
seed_packages ==
    <<[name |-> <<"B", "a", "s", "i", "c", " ", "M", "o", "n", "t", "h", "l",
                  "y">>,
       duration_months |-> 1, price |-> Float(500000)],
      [name |-> <<"S", "t", "a", "n", "d", "a", "r", "d", " ", "Q", "u", "a",
                  "r", "t", "e", "r", "l", "y">>,
       duration_months |-> 3, price |-> Float(1300000)],
      [name |-> <<"P", "r", "e", "m", "i", "u", "m", " ", "S", "e", "m", "i",
                  "-", "A", "n", "n", "u", "a", "l">>,
       duration_months |-> 6, price |-> Float(2400000)],
      [name |-> <<"V", "I", "P", " ", "A", "n", "n", "u", "a", "l">>,
       duration_months |-> 12, price |-> Float(4500000)]>>

seed_exercises == 1..10

\* the full_name of the members, which the notes of the plans quote
seed_full_names ==
    <<<<"J", "o", "h", "n", " ", "S", "m", "i", "t", "h">>,
      <<"J", "a", "n", "e", " ", "D", "o", "e">>,
      <<"M", "i", "k", "e", " ", "J", "o", "h", "n", "s", "o", "n">>,
      <<"S", "a", "r", "a", "h", " ", "W", "i", "l", "l", "i", "a", "m",
        "s">>,
      <<"D", "a", "v", "i", "d", " ", "B", "r", "o", "w", "n">>>>

seed_emails ==
    <<<<"j", "o", "h", "n", ".", "s", "m", "i", "t", "h", "@", "e", "m", "a",
        "i", "l", ".", "c", "o", "m">>,
      <<"j", "a", "n", "e", ".", "d", "o", "e", "@", "e", "m", "a", "i", "l",
        ".", "c", "o", "m">>,
      <<"m", "i", "k", "e", ".", "j", "@", "e", "m", "a", "i", "l", ".", "c",
        "o", "m">>,
      <<"s", "a", "r", "a", "h", ".", "w", "@", "e", "m", "a", "i", "l", ".",
        "c", "o", "m">>,
      <<"d", "a", "v", "i", "d", ".", "b", "@", "e", "m", "a", "i", "l", ".",
        "c", "o", "m">>>>

seed_members ==
    [i \in 1..5 |-> [email |-> seed_emails[i], registration_date |-> utcnow,
                     active_until |-> timedelta_days(today, 90)]]

\* member i (counted from 0) pays packages[i % 4] at its price
seed_invoices ==
    [i \in 1..5 |-> [member_id |-> i, package_id |-> ((i - 1) % 4) + 1,
                     amount |-> seed_packages[((i - 1) % 4) + 1].price,
                     created_at |-> utcnow]]

seed_days ==
    <<<<"M", "o", "n", "d", "a", "y">>,
      <<"W", "e", "d", "n", "e", "s", "d", "a", "y">>,
      <<"F", "r", "i", "d", "a", "y">>>>

\* the first three members get a plan of the trainers in turn (trainer1 is
\* user 2 and trainer2 user 3): three exercises on each of three days, the
\* exercises taken in the order of their ids
seed_workout_plans ==
    [i \in 1..3 |->
        [member_id |-> i, trainer_id |-> 2 + ((i - 1) % 2),
         notes |-> <<"C", "u", "s", "t", "o", "m", " ", "w", "o", "r", "k", "o",
                     "u", "t", " ", "p", "l", "a", "n", " ", "f", "o", "r", " ">>
                   \o seed_full_names[i],
         workout_details |->
             [n \in 1..9 |-> [exercise_id |-> ((n - 1) % 10) + 1, sets |-> 3,
                              reps |-> <<"1", "0", "-", "1", "2">>,
                              schedule_day |-> seed_days[((n - 1) \div 3) + 1]]]]]

seed_system_config ==
    <<[key |-> "gym_name",
       value |-> <<"F", "i", "t", "L", "i", "f", "e", " ", "G", "y", "m">>],
      [key |-> "gym_email",
       value |-> <<"c", "o", "n", "t", "a", "c", "t", "@", "f", "i", "t",
                   "l", "i", "f", "e", "g", "y", "m", ".", "c", "o", "m">>],
      [key |-> "gym_phone",
       value |-> <<"5", "5", "5", "-", "G", "Y", "M", "-", "F", "I", "T">>],
      [key |-> "currency",
       value |-> <<"U", "S", "D">>]>>

\* the trainer and the member that the tests of the plans commit
\* (tests/test_properties.py): no other user, no package and no invoice
trainer_test ==
    [username |-> <<"t", "r", "a", "i", "n", "e", "r", "_", "t", "e", "s", "t">>,
     email |-> <<"t", "r", "a", "i", "n", "e", "r", "@", "t", "e", "s", "t", ".", "c", "o", "m">>,
     password |-> <<"p", "a", "s", "s", "w", "o", "r", "d", "1", "2", "3">>,
     role |-> <<"t", "r", "a", "i", "n", "e", "r">>, is_active |-> TRUE]

test_member ==
    [email |-> <<"m", "e", "m", "b", "e", "r", "@", "t", "e", "s", "t", ".", "c", "o", "m">>,
     registration_date |-> utcnow,
     active_until |-> timedelta_days(today, 30)]

\* the trainer of the tests is logged in
InitTrainerSession ==
    /\ users = <<trainer_test>>
    /\ current_user = 1
    /\ location = [status |-> "none", path |-> ""]

InitAuthIdle ==
    /\ users = <<>>
    /\ current_user = 0
    /\ location = [status |-> "none", path |-> ""]

InitTxIdle == tx = <<>>

InitDate ==
    /\ fn_in \in [start_date : AllDates, months : 1..MaxMonths]
    /\ fn_out = NoDate
    /\ InitGymIdle
    /\ InitPlanIdle
    /\ InitRevIdle
    /\ InitAuthIdle
    /\ InitTxIdle

CallAddMonths ==
    /\ fn_out = NoDate
    /\ fn_out' = _add_months(fn_in.start_date, fn_in.months)
    /\ UNCHANGED <<fn_in, gymVars, planVars, revVars, authVars, txVars>>

\* the same arguments given to the registration flow's arithmetic
CallRelativeDelta ==
    /\ fn_out = NoDate
    /\ fn_out' = relativedelta_months(fn_in.start_date, fn_in.months)
    /\ UNCHANGED <<fn_in, gymVars, planVars, revVars, authVars, txVars>>

NextDate == CallAddMonths \/ CallRelativeDelta

SpecDate == InitDate /\ [][NextDate]_vars

\* SpecMonths: _add_months given a months argument below 1.  The function
\* takes any int.  No handler passes one below 1: payment passes
\* package.duration_months (cashier, line 54), which the admin forms refuse
\* below 1 (admin, lines 103 and 143).
InitMonths ==
    /\ fn_in \in [start_date : AllDates, months : (0 - 2)..0]
    /\ fn_out = NoDate
    /\ InitGymIdle
    /\ InitPlanIdle
    /\ InitRevIdle
    /\ InitAuthIdle
    /\ InitTxIdle

NextMonths == CallAddMonths

SpecMonths == InitMonths /\ [][NextMonths]_vars

-----------------------------------------------------------------------------
(* SpecPlan: one create_plan submission.                                   *)

\* "a", "a,b", ... : the first k day names, comma separated
RECURSIVE FirstDays(_)
FirstDays(k) ==
    IF k = 1 THEN <<LowerCase[1]>>
    ELSE FirstDays(k - 1) \o <<",", LowerCase[k]>>

\* schedule_days[] values: 1 to 8 distinct days, and fields that differ from
\* them by case, by whitespace, by repetition or by holding no day at all
DayInputs ==
    {FirstDays(k) : k \in 1..8}
    \cup {<<>>, <<" ">>, <<",">>, <<" ", ",", " ">>, <<" ", "A", " ">>,
          <<"b", ",", "B", ",", " ", "b">>, <<"h">>,
          <<"M", "o", "n", ",", "\t", "m", "O", "N">>}

PlanRow(e, s, r, d) == [exercise |-> e, sets |-> s, reps |-> r, day |-> d]

\* the rows of a form: a complete row with every day field, and its
\* one-field variations
PlanRows ==
    {PlanRow(<<"1">>, <<"3">>, <<"8">>, d) : d \in DayInputs}
    \cup {PlanRow(e, <<"3">>, <<"8">>, <<"a">>) : e \in {<<>>, <<"2">>, <<"x">>, <<"²">>}}
    \cup {PlanRow(<<"1">>, s, <<"8">>, <<"a">>) :
              s \in {<<>>, <<"x">>, <<"0">>, <<"-", "2">>, <<" ", "4">>, <<"1", "_", "0">>}}
    \cup {PlanRow(<<"1">>, <<"3">>, r, <<"a">>) : r \in {<<>>, <<" ">>}}

RowSeqs == UNION {[1..n -> PlanRows] : n \in 0..MaxRows}

\* the four getlist() lists of a form; `short` names a list the browser sent
\* one value less of
PlanForm(rows, short) ==
    LET n == Len(rows)
        cut(name, seq) == IF short = name /\ n > 0 THEN SubSeq(seq, 1, n - 1) ELSE seq
    IN  [notes         |-> <<" ", "a">>,
         exercises     |-> [k \in 1..n |-> rows[k].exercise],
         sets          |-> cut("sets", [k \in 1..n |-> rows[k].sets]),
         reps          |-> [k \in 1..n |-> rows[k].reps],
         schedule_days |-> cut("schedule_days", [k \in 1..n |-> rows[k].day])]

PlanForms ==
    {PlanForm(rows, "none") : rows \in RowSeqs}
    \cup {PlanForm(rows, short) :
              rows \in [1..1 -> PlanRows], short \in {"sets", "schedule_days"}}
    \cup {PlanForm(rows, short) :
              rows \in [1..MaxRows -> {PlanRow(<<"1">>, <<"3">>, <<"8">>, <<"a">>)}],
              short \in {"sets", "schedule_days"}}

InitPlan ==
    /\ form \in PlanForms
    /\ config = <<>>
    /\ written = <<>>
    /\ exercises = {1}
    /\ plans = <<>>
    /\ resp = [status |-> "none", errors |-> <<>>]
    /\ InitClock({date(YearBase, 1, 31)}, {0})
    /\ packages = <<>>
    /\ members = <<test_member>>
    /\ invoices = <<>>
    /\ last = NoLast
    /\ InitDateIdle
    /\ InitRevIdle
    /\ InitTrainerSession
    /\ InitTxIdle

NextPlan ==
    \/ \E raw \in SettingInputs : update_settings(raw)
    \/ \E member_id \in 1..2 : create_plan(member_id)

SpecPlan == InitPlan /\ [][NextPlan]_vars

-----------------------------------------------------------------------------
(* Spec: the application from an empty database.                           *)

Init ==
    /\ InitReadings({c \in SpecClocks(Zones) : c.today = date(YearBase, 1, 31)})
    /\ packages = <<>>
    /\ members = <<>>
    /\ invoices = <<>>
    /\ last = NoLast
    /\ InitDateIdle
    /\ InitPlanIdle
    /\ InitRevIdle
    /\ InitAuthIdle
    /\ InitTxIdle

Next ==
    \/ \E n \in NameInputs, d \in DurationInputs, p \in PriceInputs :
           create_package(n, d, p)
    \/ \E id \in 1..MaxPackages, n \in NameInputs, d \in DurationInputs,
          p \in PriceInputs : update_package(id, n, d, p)
    \/ \E id \in 1..MaxPackages : delete_package(id)
    \/ \E f \in RegForms : register(f)
    \/ \E f \in RegForms : public_register(f)
    \/ \E m \in IdInputs, p \in IdInputs : payment(m, p)
    \/ Tick(SpecClocks(Zones))

Spec == Init /\ [][Next]_vars

-----------------------------------------------------------------------------
(* SpecExt: one cashier payment for a member of any active_until and a    *)
(* package of any duration a package may have.  Member.active_until is     *)
(* nullable (models, lines 46-54); Package.duration_months is at least 1:  *)
(* the admin forms refuse less (admin, lines 103 and 143) and the seeds    *)
(* write 1, 3, 6 and 12.                                                   *)

\* the stored dates of SpecExt: the first, middle and last days of the months
\* of the first two years
ExtDates ==
    {dt \in AllDates : /\ dt.y <= YearBase + 1
                       /\ dt.d \in {1, 15, 28, 29, 30, 31}}

ExtDurations == 1 .. 13

InitExt ==
    /\ InitClock(ClockDates, {0})
    /\ \E dur \in ExtDurations :
           packages = <<[name |-> <<"G">>, duration_months |-> dur, price |-> Float(5)]>>
    /\ \E au \in ExtDates \cup {NoDate} :
           members = <<[email |-> <<"a">>, registration_date |-> date(YearBase, 1, 1),
                        active_until |-> au]>>
    /\ invoices = <<>>
    /\ last = NoLast
    /\ InitDateIdle
    /\ InitPlanIdle
    /\ InitRevIdle
    /\ InitAuthIdle
    /\ InitTxIdle

NextExt == \E m \in IdInputs, p \in IdInputs : payment(m, p)

SpecExt == InitExt /\ [][NextExt]_vars

-----------------------------------------------------------------------------
(* SpecReg: one registration, on any day, for a package of any valid       *)
(* duration.                                                               *)

RegDurations == 1..13

InitReg ==
    /\ InitClock(ExtDates, {0})
    /\ \E dur \in RegDurations :
           packages = <<[name |-> <<"G">>, duration_months |-> dur, price |-> Float(5)]>>
    /\ members = <<>>
    /\ invoices = <<>>
    /\ last = NoLast
    /\ InitDateIdle
    /\ InitPlanIdle
    /\ InitRevIdle
    /\ InitAuthIdle
    /\ InitTxIdle

NextReg ==
    \/ \E f \in RegForms : register(f)
    \/ \E f \in RegForms : public_register(f)

SpecReg == InitReg /\ [][NextReg]_vars

-----------------------------------------------------------------------------
(* Revenue by month (admin.revenue_data; cashier.history computes the same *)
(* twelve totals).                                                         *)

\* a mutant of in_year: the year filter is missing
InYearUnfiltered(rows, current_year) == rows

\* .filter(extract("year", Invoice.created_at) == current_year)
RECURSIVE in_year(_, _)
in_year(rows, current_year) ==
    IF rows = <<>> THEN <<>>
    ELSE (IF Head(rows).created_at.y = current_year THEN <<Head(rows)>> ELSE <<>>)
         \o in_year(Tail(rows), current_year)

\* SUM over the amounts of rows: the database adds them to a double that
\* starts at 0.0, one row after the other in the order of the table (SQLite
\* reads the rows by rowid and keeps that order within a group), and every
\* addition rounds
RECURSIVE sum_amount(_, _)
sum_amount(rows, total) ==
    IF rows = <<>> THEN total
    ELSE sum_amount(Tail(rows), float_add(total, Head(rows).amount))

\* func.sum(Invoice.amount) of the group of one month
month_total(rows, month) ==
    sum_amount(SelectSeq(rows, LAMBDA r : r.created_at.m = month), Float(0))

\* .group_by("month").order_by("month").all(): one row per month that has
\* invoices, by ascending month
RECURSIVE revenue_results(_, _)
revenue_results(rows, month) ==
    IF month > 12 THEN <<>>
    ELSE (IF \E i \in 1..Len(rows) : rows[i].created_at.m = month
          THEN <<[month |-> month, total |-> month_total(rows, month)]>>
          ELSE <<>>)
         \o revenue_results(rows, month + 1)

\* the loop of lines 47-49 on the list [0] * 12, indexed from 0 (the 0 of
\* an untouched month is an int, which equals the float 0.0)
RECURSIVE monthly_totals(_, _)
monthly_totals(results, acc) ==
    IF results = <<>> THEN acc
    ELSE LET row         == Head(results)
             month_index == row.month - 1
         IN  monthly_totals(Tail(results), [acc EXCEPT ![month_index] = row.total])

\* the "data" of the response for the invoices in the order of the table
\* and a current year
revenue_of(rows, current_year) ==
    monthly_totals(revenue_results(in_year(rows, current_year), 1),
                   [i \in 0..11 |-> Float(0)])

\* admin.revenue_data
revenue_data ==
    /\ revenue.status = "none"
    /\ revenue' = [status |-> "ok", data |-> revenue_of(invoices, utcnow.y)]
    /\ UNCHANGED <<gymVars, dateVars, planVars, authVars, txVars>>

\* SpecRev: one revenue request on any table of up to three invoices of the
\* amounts 0.1, 0.2 and 0.3 (the prices of three packages; no sum of two of
\* them is a double, so every addition rounds), created at the end of
\* January and of December of the first two years.
RevDates   == {dt \in AllDates : dt.y <= YearBase + 1 /\ dt.m \in {1, 12} /\ dt.d = 31}
RevAmounts == {FloatNum(1, 0 - 1), FloatNum(2, 0 - 1), FloatNum(3, 0 - 1)}
RevRows    == [member_id : {1}, package_id : {1}, amount : RevAmounts,
               created_at : RevDates]

InitRev ==
    /\ InitClock(ClockDates, Zones)
    /\ packages = <<[name |-> <<"G">>, duration_months |-> 1, price |-> Float(5)]>>
    /\ members = <<[email |-> <<"a">>, registration_date |-> date(YearBase, 1, 1),
                    active_until |-> NoDate]>>
    /\ invoices \in UNION {[1..n -> RevRows] : n \in 0..(MaxInvoices + 1)}
    /\ last = NoLast
    /\ InitDateIdle
    /\ InitPlanIdle
    /\ InitRevIdle
    /\ InitAuthIdle
    /\ InitTxIdle

NextRev == revenue_data

SpecRev == InitRev /\ [][NextRev]_vars

-----------------------------------------------------------------------------
(* SpecRef: the admin deletions against the rows that reference them.      *)

MaxExercises == 2
MaxPlans     == 2

\* the id the database gives the next row of a table held as a set of ids
next_id(ids) ==
    IF ids = {} THEN 1 ELSE (CHOOSE m \in ids : \A k \in ids : k <= m) + 1

\* admin.create_exercise
create_exercise(name) ==
    /\ last = NoLast
    /\ next_id(exercises) <= MaxExercises
    /\ IF strip(name) = <<>>
       THEN /\ exercises' = exercises
            /\ last' = [op |-> "create_exercise", ok |-> FALSE, exercise_id |-> 0]
       ELSE /\ exercises' = exercises \cup {next_id(exercises)}
            /\ last' = [op |-> "create_exercise", ok |-> TRUE,
                        exercise_id |-> next_id(exercises)]
    /\ UNCHANGED <<clockVars, packages, members, invoices, config, written, form,
                   plans, resp, dateVars, revVars, authVars, txVars>>

\* a mutant of workout_detail_count: the details are counted by plan id
WorkoutDetailCountByPlan(id) ==
    IF id \in 1..Len(plans) THEN Len(plans[id].workout_details) ELSE 0

\* WorkoutDetail.query.filter_by(exercise_id=id).count()
workout_detail_count(id) ==
    Cardinality({pd \in {<<p, k>> : p \in 1..Len(plans), k \in 1..MaxRows} :
                    /\ pd[2] <= Len(plans[pd[1]].workout_details)
                    /\ plans[pd[1]].workout_details[pd[2]].exercise_id = id})

\* admin.delete_exercise
delete_exercise(id) ==
    /\ last = NoLast
    /\ id \in exercises                      \* get_or_404
    /\ IF workout_detail_count(id) > 0
       THEN /\ exercises' = exercises
            /\ last' = [op |-> "delete_exercise", ok |-> FALSE, exercise_id |-> id]
       ELSE /\ exercises' = exercises \ {id}
            /\ last' = [op |-> "delete_exercise", ok |-> TRUE, exercise_id |-> id]
    /\ UNCHANGED <<clockVars, packages, members, invoices, config, written, form,
                   plans, resp, dateVars, revVars, authVars, txVars>>

\* the forms of SpecRef: one or two complete rows on the exercises 1 and 2
RefRows  == {PlanRow(e, <<"3">>, <<"8">>, <<"a">>) : e \in {<<"1">>, <<"2">>}}
RefForms == {PlanForm(rows, "none") :
                 rows \in UNION {[1..n -> RefRows] : n \in 1..MaxRows}}

\* the response has been delivered and the next request arrives; a
\* create_plan request brings its form
next_request(f) ==
    /\ last # NoLast \/ resp.status # "none"
    /\ last' = NoLast
    /\ resp' = [status |-> "none", errors |-> <<>>]
    /\ form' = f
    /\ UNCHANGED <<clockVars, packages, members, invoices, config, written,
                   exercises, plans, dateVars, revVars, authVars, txVars>>

InitRef ==
    /\ InitClock({date(YearBase, 1, 31)}, {0})
    /\ packages = <<>>
    /\ members = <<test_member>>
    /\ invoices = <<>>
    /\ last = NoLast
    /\ config = <<>>
    /\ written = <<>>
    /\ exercises = {}
    /\ form \in RefForms
    /\ plans = <<>>
    /\ resp = [status |-> "none", errors |-> <<>>]
    /\ InitDateIdle
    /\ InitRevIdle
    /\ InitTrainerSession
    /\ InitTxIdle

NextRef ==
    \/ \E n \in NameInputs, p \in {<<"5">>, <<"i", "n", "f">>} :
           create_package(n, <<"1">>, p)
    \/ \E id \in 1..MaxPackages : delete_package(id)
    \/ \E m \in IdInputs, p \in IdInputs : payment(m, p)
    \/ \E n \in NameInputs : create_exercise(n)
    \/ \E id \in 1..MaxExercises : delete_exercise(id)
    \/ last = NoLast /\ Len(plans) < MaxPlans /\ create_plan(1)
    \/ \E f \in RefForms : next_request(f)

SpecRef == InitRef /\ [][NextRef]_vars

-----------------------------------------------------------------------------
(* SpecStat: the member statistics of the admin dashboard on any tables.   *)

\* a mutant of active_filter: a membership that ends today is not active
ActiveFilterStrict(active_until, today_) ==
    active_until # NoDate /\ DateLT(today_, active_until)

\* Member.active_until >= today in SQL: a NULL active_until compares as
\* unknown and the row is left out
active_filter(active_until, today_) ==
    active_until # NoDate /\ DateLE(today_, active_until)

\* Member.query.filter(Member.active_until >= today): the ids of the rows
active_members_list ==
    {i \in 1..Len(members) : active_filter(members[i].active_until, today)}

\* admin.active_members
active_members ==
    /\ last = NoLast
    /\ last' = [op |-> "active_members", ok |-> TRUE,
                count |-> Cardinality(active_members_list)]
    /\ UNCHANGED <<clockVars, packages, members, invoices, dateVars, planVars, revVars,
                   authVars, txVars>>

\* a mutant of latest_invoices: the first invoice of the member
LatestInvoicesOldest(member_id) ==
    {i \in 1..Len(invoices) :
        /\ invoices[i].member_id = member_id
        /\ \A k \in 1..Len(invoices) :
               invoices[k].member_id = member_id
                   => DateLE(invoices[i].created_at, invoices[k].created_at)}

\* Invoice.query.filter(member_id == member.id).order_by(created_at.desc())
\* .first(): the rows the database may return, those of the member that no
\* other row of the member is later than; the order of rows of the same
\* created_at is the database's
latest_invoices(member_id) ==
    {i \in 1..Len(invoices) :
        /\ invoices[i].member_id = member_id
        /\ \A k \in 1..Len(invoices) :
               invoices[k].member_id = member_id
                   => DateLE(invoices[k].created_at, invoices[i].created_at)}

\* the dictionary package_counts after the loop over the active members,
\* latest[m] being the row that first() returned for the member m
package_counts(latest) ==
    LET counted == {m \in DOMAIN latest :
                       has_row(packages, invoices[latest[m]].package_id)}
        name_of(m) == packages[invoices[latest[m]].package_id].name
    IN  [package_name \in {name_of(m) : m \in counted} |->
             Cardinality({m \in counted : name_of(m) = package_name})]

\* admin.members_per_package
members_per_package ==
    /\ last = NoLast
    /\ \E latest \in [{m \in active_members_list : latest_invoices(m) # {}}
                         -> 1..Len(invoices)] :
           /\ \A m \in DOMAIN latest : latest[m] \in latest_invoices(m)
           /\ last' = [op |-> "members_per_package", ok |-> TRUE,
                       counts |-> package_counts(latest)]
    /\ UNCHANGED <<clockVars, packages, members, invoices, dateVars, planVars, revVars,
                   authVars, txVars>>

\* the tables of SpecStat: two packages, of the same name or not; members of
\* any active_until; invoices in the order of their creation
StatDates    == ClockDates
StatPackages == {<<[name |-> <<"G">>, duration_months |-> 1, price |-> Float(5)],
                   [name |-> n, duration_months |-> 1, price |-> Float(5)]>> :
                     n \in {<<"G">>, <<"H">>}}
StatMembers  == [1..(MaxMembers + 1) ->
                    [email : {<<"a">>}, registration_date : {date(YearBase, 1, 1)},
                     active_until : StatDates \cup {NoDate}]]
StatInvoices ==
    {s \in UNION {[1..n -> [member_id : 1..(MaxMembers + 1), package_id : 1..2,
                            amount : {Float(5)},
                            created_at : {date(YearBase, 1, 31),
                                          date(YearBase, 2, 28)}]] :
                      n \in 0..(MaxInvoices + 1)} :
        \A i \in 1..(Len(s) - 1) : DateLE(s[i].created_at, s[i + 1].created_at)}

InitStat ==
    /\ InitClock({date(YearBase, 2, 28)}, {0})
    /\ packages \in StatPackages
    /\ \E ms \in StatMembers :
           members = [i \in DOMAIN ms |-> [ms[i] EXCEPT !.email = <<LowerCase[i]>>]]
    /\ invoices \in StatInvoices
    /\ last = NoLast
    /\ InitDateIdle
    /\ InitPlanIdle
    /\ InitRevIdle
    /\ InitAuthIdle
    /\ InitTxIdle

NextStat ==
    \/ active_members
    \/ members_per_package

SpecStat == InitStat /\ [][NextStat]_vars

-----------------------------------------------------------------------------
(* SpecHist: the invoice listing of the cashier on any table of invoices.  *)
(* Here Invoice.created_at keeps its time of day: datetime.utcnow() has    *)
(* microseconds.                                                           *)

\* datetime(y, m, d, ...): a date, the second of the day and the microsecond
datetime(dt, second, microsecond) ==
    [y |-> dt.y, m |-> dt.m, d |-> dt.d, second |-> second,
     microsecond |-> microsecond]

\* a <= b on datetimes
DateTimeLE(a, b) ==
    \/ DateLT(date(a.y, a.m, a.d), date(b.y, b.m, b.d))
    \/ /\ a.y = b.y /\ a.m = b.m /\ a.d = b.d
       /\ \/ a.second < b.second
          \/ a.second = b.second /\ a.microsecond <= b.microsecond

\* the value of an <input type="date">: YYYY-MM-DD
isoformat(dt) ==
    LET two(n) == IF n < 10 THEN <<"0">> \o str(n) ELSE str(n)
    IN  str(dt.y) \o <<"-">> \o two(dt.m) \o <<"-">> \o two(dt.d)

\* datetime.strptime(raw, "%Y-%m-%d") of a string that strptime_ok accepts:
\* midnight of the day
strptime(raw) ==
    LET parts == split(raw, "-")
    IN  datetime(date(int(parts[1]).val, int(parts[2]).val, int(parts[3]).val), 0, 0)

\* .replace(hour=23, minute=59, second=59): the microsecond stays 0
end_of_day(dt) == [dt EXCEPT !.second = 23 * 3600 + 59 * 60 + 59]

\* the rows of Invoice.query after the filters of lines 77-95
history_query(member_id, start_date_str, end_date_str) ==
    {i \in 1..Len(invoices) :
        /\ (member_id # <<>> /\ isdigit(member_id))
               => invoices[i].member_id = int(member_id).val
        /\ (start_date_str # <<>> /\ strptime_ok(start_date_str))
               => DateTimeLE(strptime(start_date_str), invoices[i].created_at)
        /\ (end_date_str # <<>> /\ strptime_ok(end_date_str))
               => DateTimeLE(invoices[i].created_at,
                             end_of_day(strptime(end_date_str)))}

\* .order_by(Invoice.created_at.desc()).all(): the rows, latest first; the
\* order of rows of the same created_at is the database's
order_by_created_at_desc(rows) ==
    {s \in [1..Cardinality(rows) -> rows] :
        /\ \A i, k \in DOMAIN s : i # k => s[i] # s[k]
        /\ \A i \in 1..(Len(s) - 1) :
               DateTimeLE(invoices[s[i + 1]].created_at, invoices[s[i]].created_at)}

\* sum(monthly_totals): the twelve totals added to 0 from index `month` on,
\* one after the other, every addition rounding
RECURSIVE sum(_, _, _)
sum(data, month, total) ==
    IF month > 11 THEN total
    ELSE sum(data, month + 1, float_add(total, data[month]))

\* cashier.history
history(member_raw, start_raw, end_raw) ==
    LET member_id      == strip(member_raw)
        start_date_str == strip(start_raw)
        end_date_str   == strip(end_raw)
    IN  /\ last = NoLast
        /\ IF isdigit(member_id) /\ ~int(member_id).ok
           THEN last' = Raised("history")          \* int() at line 79
           ELSE \E listing \in order_by_created_at_desc(
                              history_query(member_id, start_date_str, end_date_str)),
                   monthly_totals_now \in {revenue_of(invoices, utcnow.y)} :
               last' = [op |-> "history", ok |-> TRUE, raised |-> FALSE,
                        invoices |-> listing,
                        selected_member_id |-> member_id,
                        start_date |-> start_date_str, end_date |-> end_date_str,
                        current_year |-> utcnow.y,
                        monthly_data |-> monthly_totals_now,
                        total_revenue |-> sum(monthly_totals_now, 0, Float(0))]
        /\ UNCHANGED <<clockVars, packages, members, invoices, dateVars, planVars, revVars,
                   authVars, txVars>>

\* the tables and the query strings of SpecHist: invoices of two members at
\* midnight, at 23:59:59 and half a second later on two days, in the order of
\* their creation
HistDays  == {date(YearBase, 1, 31), date(YearBase, 2, 28)}
HistTimes == {datetime(dt, t[1], t[2]) :
                 dt \in HistDays,
                 t \in {<<0, 0>>, <<86399, 0>>, <<86399, 500000>>}}
HistInvoices ==
    {s \in UNION {[1..n -> [member_id : 1..(MaxMembers + 1), package_id : {1},
                            amount : {Float(5)}, created_at : HistTimes]] :
                      n \in 0..(MaxInvoices + 1)} :
        \A i \in 1..(Len(s) - 1) : DateTimeLE(s[i].created_at, s[i + 1].created_at)}
HistMemberInputs == {<<>>, <<"x">>, <<"1">>, <<" ", "2">>, <<"²">>}
HistDateInputs   == {<<>>, <<"x">>, <<"2", "0", "2", "3", "-", "1", "-", "3", "1">>}
                    \cup {isoformat(dt) : dt \in HistDays}

InitHist ==
    /\ InitClock({date(YearBase, 2, 28)}, {0})
    /\ packages = <<[name |-> <<"G">>, duration_months |-> 1, price |-> Float(5)]>>
    /\ members = [i \in 1..(MaxMembers + 1) |->
                     [email |-> <<LowerCase[i]>>,
                      registration_date |-> date(YearBase, 1, 1),
                      active_until |-> NoDate]]
    /\ invoices \in HistInvoices
    /\ last = NoLast
    /\ InitDateIdle
    /\ InitPlanIdle
    /\ InitRevIdle
    /\ InitAuthIdle
    /\ InitTxIdle

NextHist ==
    \E m \in HistMemberInputs, s \in HistDateInputs, e \in HistDateInputs :
        history(m, s, e)

SpecHist == InitHist /\ [][NextHist]_vars

-----------------------------------------------------------------------------
(* SpecAuth: the login, the role dashboards and the admin routes, for one  *)
(* browser session on a seeded user table.                                 *)

MaxUsers == 6

\* the roles that create_user and edit_user accept (admin, lines 295 and 334)
ROLES == {<<"a", "d", "m", "i", "n">>,
          <<"r", "e", "c", "e", "p", "t", "i", "o", "n", "i", "s", "t">>,
          <<"t", "r", "a", "i", "n", "e", "r">>,
          <<"c", "a", "s", "h", "i", "e", "r">>}

\* auth.ROLE_REDIRECTS
ROLE_REDIRECTS ==
    [role \in ROLES |->
        IF role = <<"a", "d", "m", "i", "n">> THEN "/admin/dashboard"
        ELSE IF role = <<"r", "e", "c", "e", "p", "t", "i", "o", "n", "i", "s", "t">>
        THEN "/reception/dashboard"
        ELSE IF role = <<"t", "r", "a", "i", "n", "e", "r">> THEN "/trainer/dashboard"
        ELSE "/cashier/dashboard"]

\* auth._redirect_for_role: ROLE_REDIRECTS.get(role.lower(), url_for("auth.login"))
_redirect_for_role(role) ==
    IF lower(role) \in DOMAIN ROLE_REDIRECTS THEN ROLE_REDIRECTS[lower(role)]
    ELSE "/login"

\* current_user.is_authenticated
is_authenticated == current_user # 0

\* flask_login.login_required on an anonymous request: the request is sent to
\* login_manager.login_view and the view does not run
unauthorized ==
    /\ location' = redirect("/login")
    /\ UNCHANGED <<users, current_user, gymVars, dateVars, planVars, revVars, txVars>>

\* User.query.filter_by(username=username).first(): the id, 0 for None
user_by_username(username) ==
    IF \E i \in 1..Len(users) : has_row(users, i) /\ users[i].username = username
    THEN CHOOSE i \in 1..Len(users) : has_row(users, i) /\ users[i].username = username
    ELSE 0

\* User.query.filter_by(email=email).first(): the id, 0 for None
user_by_email(email) ==
    IF \E i \in 1..Len(users) : has_row(users, i) /\ users[i].email = email
    THEN CHOOSE i \in 1..Len(users) : has_row(users, i) /\ users[i].email = email
    ELSE 0

\* auth.login; method is "GET" or "POST"
login(method, username_raw, password) ==
    LET username == strip(username_raw)
        user     == user_by_username(username)
    IN  /\ IF is_authenticated
           THEN /\ location' = redirect(_redirect_for_role(users[current_user].role))
                /\ current_user' = current_user
           ELSE IF method = "POST" /\ user # 0 /\ users[user].password = password
           THEN IF ~users[user].is_active
                THEN /\ location' = render_template("/login")
                     /\ current_user' = current_user
                ELSE /\ current_user' = user
                     /\ location' = redirect(_redirect_for_role(users[user].role))
           ELSE /\ location' = render_template("/login")
                /\ current_user' = current_user
        /\ UNCHANGED <<users, gymVars, dateVars, planVars, revVars, txVars>>

\* auth.logout
logout ==
    IF ~is_authenticated THEN unauthorized
    ELSE
        /\ current_user' = 0
        /\ location' = redirect("/login")
        /\ UNCHANGED <<users, gymVars, dateVars, planVars, revVars, txVars>>

\* the four dashboard views, the admin pages users and settings and the
\* payment form of the cashier: each is behind login_required only.  The
\* dashboard of the cashier has no page of its own: it redirects to the
\* payment form (cashier, line 17).
DashboardPaths == {ROLE_REDIRECTS[role] : role \in ROLES}
PagePaths      == DashboardPaths \cup {"/admin/users", "/admin/settings",
                                       "/cashier/payment"}

dashboard(path) ==
    IF ~is_authenticated THEN unauthorized
    ELSE
        /\ location' = IF path = "/cashier/dashboard"
                       THEN redirect("/cashier/payment")
                       ELSE render_template(path)
        /\ UNCHANGED <<users, current_user, gymVars, dateVars, planVars, revVars,
                       txVars>>

\* admin.update_settings behind its decorator
admin_update_settings(raw) ==
    IF ~is_authenticated THEN unauthorized
    ELSE update_settings(raw)

\* the form of create_user and edit_user
UserForm(username, email, password, role) ==
    [username |-> username, email |-> email, password |-> password, role |-> role]

\* admin.create_user, POST
create_user(f) ==
    IF ~is_authenticated THEN unauthorized
    ELSE
        LET username == strip(f.username)
            email    == strip(f.email)
            password == f.password
            role     == strip(f.role)
            errors   == \/ username = <<>>
                        \/ email = <<>>
                        \/ password = <<>> \/ Len(password) < 6
                        \/ role \notin ROLES
                        \/ user_by_username(username) # 0
                        \/ user_by_email(email) # 0
        IN  /\ Len(users) < MaxUsers
            /\ IF errors
               THEN /\ users' = users
                    /\ location' = render_template("/admin/users/create")
               ELSE /\ users' = Append(users,
                                       [username |-> username, email |-> email,
                                        password |-> password, role |-> role,
                                        is_active |-> TRUE])
                    /\ location' = redirect("/admin/users")
            /\ UNCHANGED <<current_user, gymVars, dateVars, planVars, revVars, txVars>>

\* admin.edit_user, POST
edit_user(id, f) ==
    IF ~is_authenticated THEN unauthorized
    ELSE
        LET username == strip(f.username)
            email    == strip(f.email)
            password == f.password
            role     == strip(f.role)
            existing_user  == user_by_username(username)
            existing_email == user_by_email(email)
            errors   == \/ username = <<>>
                        \/ email = <<>>
                        \/ role \notin ROLES
                        \/ existing_user # 0 /\ existing_user # id
                        \/ existing_email # 0 /\ existing_email # id
        IN  /\ has_row(users, id)                        \* get_or_404
            /\ IF errors
               THEN /\ users' = users
                    /\ location' = render_template("/admin/users/edit")
               ELSE /\ users' = [users EXCEPT
                                   ![id].username = username,
                                   ![id].email = email,
                                   ![id].role = role,
                                   ![id].password =
                                       IF password # <<>> /\ Len(password) >= 6
                                       THEN password ELSE @]
                    /\ location' = redirect("/admin/users")
            /\ UNCHANGED <<current_user, gymVars, dateVars, planVars, revVars, txVars>>

\* admin.toggle_user_active
toggle_user_active(id) ==
    IF ~is_authenticated THEN unauthorized
    ELSE
        /\ has_row(users, id)                            \* get_or_404
        /\ users' = IF id = current_user THEN users
                    ELSE [users EXCEPT ![id].is_active = ~@]
        /\ location' = redirect("/admin/users")
        /\ UNCHANGED <<current_user, gymVars, dateVars, planVars, revVars, txVars>>

\* user.workout_plans: the plans whose trainer is the user
workout_plans(id) == {i \in 1..Len(plans) : plans[i].trainer_id = id}

\* admin.delete_user
delete_user(id) ==
    IF ~is_authenticated THEN unauthorized
    ELSE
        /\ has_row(users, id)                            \* get_or_404
        /\ users' = IF id = current_user \/ workout_plans(id) # {} THEN users
                    ELSE trim([users EXCEPT ![id] = NoRow])
        /\ location' = redirect("/admin/users")
        /\ UNCHANGED <<current_user, gymVars, dateVars, planVars, revVars, txVars>>

\* the browser follows a redirect with a GET of its target
follow ==
    /\ location.status = "redirect"
    /\ IF location.path = "/login" THEN login("GET", <<>>, <<>>)
       ELSE dashboard(location.path)

\* the request values of SpecAuth
NewUser       == <<"n", "e", "w">>
NewEmail      == <<"n", "e", "w", "@", "g", "y", "m", ".", "c", "o", "m">>
NewPassword   == <<"n", "e", "w", "1", "2", "3">>
\* the login forms: every user with its password, with the password of the
\* first user and with a wrong one, and an unknown username
LoginInputs ==
    UNION {{<<users[i].username, p>> : p \in {users[i].password, users[1].password,
                                                <<"x">>}} :
           i \in {k \in 1..Len(users) : has_row(users, k)}}
    \cup {<<<<"x">>, users[1].password>>}
UserForms ==
    {UserForm(u, NewEmail, p, r) :
        u \in {NewUser, <<"a", "d", "m", "i", "n">>},
        p \in {NewPassword, <<"x">>},
        r \in {<<" ", "t", "r", "a", "i", "n", "e", "r">>,
               <<"r", "e", "c", "e", "p", "t", "i", "o", "n">>}}
EditForms ==
    {UserForm(NewUser, NewEmail, <<>>, r) :
        r \in {<<"a", "d", "m", "i", "n">>, <<"r", "e", "c", "e", "p", "t", "i", "o", "n">>}}
AuthSettingInputs == {<<"x">>, <<"3">>}

\* the member that the receptionist of the seed registers on the first
\* package, with its invoice, and the plan that the trainer of the seed (id 3)
\* saves for the member
auth_member ==
    [email |-> <<"a">>, registration_date |-> utcnow,
     active_until |-> relativedelta_months(utcnow, seed_db_packages[1].duration_months)]

auth_invoice ==
    [member_id |-> 1, package_id |-> 1, amount |-> seed_db_packages[1].price,
     created_at |-> utcnow]

auth_plan ==
    [member_id |-> 1, trainer_id |-> 3, notes |-> <<>>,
     workout_details |-> <<[exercise_id |-> 1, sets |-> 3, reps |-> <<"8">>,
                            schedule_day |-> <<"a">>]>>]

\* SpecAuth starts from what the seed_db command commits, from that state
\* after one registration and one saved plan, or from what
\* seed_data.seed_all commits; nobody is logged in
InitAuth ==
    /\ InitClock({date(YearBase, 1, 31)}, {0})
    /\ \/ /\ users = seed_db
          /\ packages = seed_db_packages
          /\ exercises = seed_db_exercises
          /\ config = seed_db_config
          /\ \/ /\ members = <<>>
                /\ invoices = <<>>
                /\ plans = <<>>
             \/ /\ members = <<auth_member>>
                /\ invoices = <<auth_invoice>>
                /\ plans = <<auth_plan>>
       \/ /\ users = seed_users
          /\ packages = seed_packages
          /\ exercises = seed_exercises
          /\ config = seed_system_config
          /\ members = seed_members
          /\ invoices = seed_invoices
          /\ plans = seed_workout_plans
    /\ last = NoLast
    /\ current_user = 0
    /\ location = [status |-> "none", path |-> ""]
    /\ InitDateIdle
    /\ written = <<>>
    /\ form = [notes |-> <<>>, exercises |-> <<>>, sets |-> <<>>,
               reps |-> <<>>, schedule_days |-> <<>>]
    /\ resp = [status |-> "none", errors |-> <<>>]
    /\ InitRevIdle
    /\ InitTxIdle

NextAuth ==
    \/ follow
    \/ \E f \in LoginInputs : login("POST", f[1], f[2])
    \/ login("GET", <<>>, <<>>)
    \/ logout
    \/ \E path \in PagePaths : dashboard(path)
    \/ \E raw \in AuthSettingInputs : admin_update_settings(raw)
    \/ \E f \in UserForms : create_user(f)
    \/ \E f \in EditForms : edit_user(Len(users), f)
    \/ \E id \in {1, Len(users)} : toggle_user_active(id)
    \/ delete_user(3)

SpecAuth == InitAuth /\ [][NextAuth]_vars

-----------------------------------------------------------------------------
(* SpecTx: two cashier payments for one member whose requests overlap.     *)
(* Each request has its own database session; the tables hold what is      *)
(* committed.                                                               *)

Requests == {1, 2}

\* a request before its first step
tx_start(member_id, package_id) ==
    [pc |-> "start", member_id |-> member_id, package_id |-> package_id,
     active_until |-> NoDate, duration_months |-> 0, amount |-> Float(0),
     new_until |-> NoDate]

\* db.session.get(Member, ...), db.session.get(Package, ...): the session
\* loads the committed rows
payment_read(r) ==
    /\ tx[r].pc = "start"
    /\ tx' = [tx EXCEPT ![r].pc = "read",
                        ![r].active_until = members[tx[r].member_id].active_until,
                        ![r].duration_months = packages[tx[r].package_id].duration_months,
                        ![r].amount = packages[tx[r].package_id].price]
    /\ UNCHANGED <<gymVars, dateVars, planVars, revVars, authVars>>

\* lines 55-59: the new date, from the values the session holds
payment_compute(r) ==
    /\ tx[r].pc = "read"
    /\ tx' = [tx EXCEPT ![r].pc = "computed",
                        ![r].new_until = _add_months(base_date(tx[r].active_until, today),
                                                     tx[r].duration_months)]
    /\ UNCHANGED <<gymVars, dateVars, planVars, revVars, authVars>>

\* db.session.commit(), the flush: INSERT invoice and UPDATE member SET
\* active_until in the transaction of the request; the UPDATE waits while the
\* other request holds the row
payment_write(r) ==
    /\ tx[r].pc = "computed"
    /\ \A o \in Requests : tx[o].pc # "written"
    /\ tx' = [tx EXCEPT ![r].pc = "written"]
    /\ UNCHANGED <<gymVars, dateVars, planVars, revVars, authVars>>

\* db.session.commit(), the COMMIT: the writes of the request become the
\* committed rows
payment_commit(r) ==
    /\ tx[r].pc = "written"
    /\ tx' = [tx EXCEPT ![r].pc = "committed"]
    /\ members' = [members EXCEPT ![tx[r].member_id].active_until = tx[r].new_until]
    /\ invoices' = Append(invoices,
                          [member_id |-> tx[r].member_id,
                           package_id |-> tx[r].package_id,
                           amount |-> tx[r].amount, created_at |-> utcnow])
    /\ UNCHANGED <<clockVars, packages, last, dateVars, planVars, revVars, authVars>>

\* the tables of SpecTx: packages of 1 and of 12 months, one member that has
\* lapsed, never paid, or is active
TxPackages == <<[name |-> <<"G">>, duration_months |-> 1, price |-> Float(5)],
                [name |-> <<"H">>, duration_months |-> 12, price |-> Float(7)]>>

InitTx ==
    /\ InitClock({date(YearBase, 1, 31), date(YearBase, 2, 28)}, Zones)
    /\ packages = TxPackages
    /\ \E active_until \in ClockDates \cup {NoDate} :
           members = <<[email |-> <<"a">>, registration_date |-> date(YearBase, 1, 1),
                        active_until |-> active_until]>>
    /\ invoices = <<>>
    /\ last = NoLast
    /\ tx \in [Requests -> {tx_start(1, p) : p \in 1..Len(TxPackages)}]
    /\ InitDateIdle
    /\ InitPlanIdle
    /\ InitRevIdle
    /\ InitAuthIdle

NextTx ==
    \E r \in Requests :
        \/ payment_read(r)
        \/ payment_compute(r)
        \/ payment_write(r)
        \/ payment_commit(r)

SpecTx == InitTx /\ [][NextTx]_vars

-----------------------------------------------------------------------------
(* SpecMail: registrations one after the other, with room for more than    *)
(* one member.                                                             *)

InitMail ==
    /\ InitClock(ClockDates, Zones)
    /\ \E dur \in {1, 12} :
           packages = <<[name |-> <<"G">>, duration_months |-> dur, price |-> Float(5)]>>
    /\ members = <<>>
    /\ invoices = <<>>
    /\ last = NoLast
    /\ InitDateIdle
    /\ InitPlanIdle
    /\ InitRevIdle
    /\ InitAuthIdle
    /\ InitTxIdle

NextMail ==
    \/ \E f \in RegForms :                              \* reception.register
           /\ last = NoLast
           /\ register_rows("register", f, MaxMembers + 1)
           /\ UNCHANGED <<clockVars, packages, dateVars, planVars, revVars, authVars, txVars>>
    \/ \E f \in RegForms :                              \* auth.public_register
           /\ last = NoLast
           /\ register_rows("register", f, MaxMembers + 1)
           /\ UNCHANGED <<clockVars, packages, dateVars, planVars, revVars, authVars, txVars>>
    \/ Tick(Clocks(ClockDates, Zones))

SpecMail == InitMail /\ [][NextMail]_vars

-----------------------------------------------------------------------------
(* SpecSplit: _add_months applied twice, as two payments of an active      *)
(* member do (cashier 55-59), and once with the sum of the months.         *)

\* the start dates: the first, the middle and the last days of every month
SplitDates  == {dt \in AllDates : dt.d \in {1, 15} \cup 28..31}
SplitMonths == 1..(MaxMonths \div 2)

InitSplit ==
    /\ fn_in \in [start_date : SplitDates, months : SplitMonths, then : SplitMonths]
    /\ fn_out = NoDate
    /\ InitGymIdle
    /\ InitPlanIdle
    /\ InitRevIdle
    /\ InitAuthIdle
    /\ InitTxIdle

CallAddMonthsTwice ==
    /\ fn_out = NoDate
    /\ fn_out' = [split  |-> _add_months(_add_months(fn_in.start_date, fn_in.months),
                                         fn_in.then),
                  single |-> _add_months(fn_in.start_date, fn_in.months + fn_in.then)]
    /\ UNCHANGED <<fn_in, gymVars, planVars, revVars, authVars, txVars>>

NextSplit == CallAddMonthsTwice

SpecSplit == InitSplit /\ [][NextSplit]_vars

-----------------------------------------------------------------------------
(* Properties of the membership extension.                                 *)

PaymentDone == last.op = "payment" /\ last.ok

\* C1: a successful cashier payment never lowers the member's active_until:
\* the date stored after the payment is at or after the date stored before it.
C1_PaymentNeverLowersActiveUntil ==
    (PaymentDone /\ last.before # NoDate)
        => DateLE(last.before, members[last.member_id].active_until)

\* C1 witness: a payment for a member whose date was set by the registration
C1_Witness ==
    /\ PaymentDone
    /\ Len(invoices) = 2
    /\ \A i \in 1..2 : invoices[i].member_id = last.member_id
    /\ DateLT(last.before, members[last.member_id].active_until)

\* C2: with duration_months >= 1 and active_until absent or strictly before
\* today, the new active_until is today advanced by duration_months months.
C2_LapsedAnchorsOnToday ==
    (PaymentDone /\ last.months >= 1
       /\ (last.before = NoDate \/ DateLT(last.before, today)))
        => /\ members[last.member_id].active_until = _add_months(today, last.months)
           /\ last.after = members[last.member_id].active_until

\* C2 witness: the absent date, today = 2023-01-31, one month
C2_Witness ==
    /\ PaymentDone
    /\ last.before = NoDate
    /\ last.months = 1
    /\ today = date(2023, 1, 31)
    /\ members[1].active_until = date(2023, 2, 28)

\* C2 witness of the stale date: a lapsed member is anchored on today
C2_WitnessStale ==
    /\ PaymentDone
    /\ last.before = date(2023, 1, 15)
    /\ last.months = 3
    /\ today = date(2024, 2, 29)
    /\ members[1].active_until = date(2024, 5, 29)

\* C3: with duration_months >= 1 and active_until today or later, the new
\* active_until is the current active_until advanced by duration_months months.
C3_ActiveStacksOnActiveUntil ==
    (PaymentDone /\ last.months >= 1
       /\ last.before # NoDate /\ DateLE(today, last.before))
        => /\ members[last.member_id].active_until
                 = _add_months(last.before, last.months)
           /\ last.after = members[last.member_id].active_until

\* C3 witness: the boundary active_until = today, and a date after today
C3_Witness ==
    /\ PaymentDone
    /\ last.months = 12

\* C5: an extension requested with duration_months < 1 fails with an
\* InvalidDuration error and produces no new active_until: _add_months
\* returns no date for a months argument below 1.
C5_InvalidDurationRejected ==
    fn_in.months < 1 => fn_out = NoDate

-----------------------------------------------------------------------------
(* Properties of _add_months.                                              *)

\* the civil calendar, stated apart from the code: the lengths of the months
\* and the Gregorian leap rule
CalendarMonthLengths == <<31, 28, 31, 30, 31, 30, 31, 31, 30, 31, 30, 31>>

CalendarLeap(y) ==
    \/ \E k \in 0..(y \div 400) : y = 400 * k
    \/ /\ \E k \in 0..(y \div 4) : y = 4 * k
       /\ ~\E k \in 0..(y \div 100) : y = 100 * k

CalendarLastDay(y, m) ==
    IF m = 2 /\ CalendarLeap(y) THEN 29 ELSE CalendarMonthLengths[m]

\* C4: for months >= 1, _add_months returns a valid calendar date in the
\* month exactly `months` months after the start month, whose day is
\* min(start day, last day of that month).
C4_AddMonthsClampsToTargetMonth ==
    (fn_out # NoDate /\ fn_in.months >= 1)
        => LET s == fn_in.start_date
               r == fn_out
           IN  /\ r.m \in 1..12
               /\ r.d \in 1..CalendarLastDay(r.y, r.m)
               /\ 12 * r.y + (r.m - 1) = 12 * s.y + (s.m - 1) + fn_in.months
               /\ r.d = Min(s.d, CalendarLastDay(r.y, r.m))

\* C4 witness: Jan 31 + 1 month in a leap year is Feb 29
C4_Witness ==
    /\ fn_in = [start_date |-> date(2024, 1, 31), months |-> 1]
    /\ fn_out = date(2024, 2, 29)

\* C4 witness: Jan 31 + 1 month in a common year is Feb 28
C4_WitnessCommonYear ==
    /\ fn_in = [start_date |-> date(2023, 1, 31), months |-> 1]
    /\ fn_out = date(2023, 2, 28)

\* C4 witness: the year carry across December
C4_WitnessYearCarry ==
    /\ fn_in = [start_date |-> date(2023, 12, 31), months |-> 14]
    /\ fn_out = date(2025, 2, 28)

-----------------------------------------------------------------------------
(* Properties of create_plan.                                              *)

\* the request was answered by the validation (the member was found)
PlanAnswered == resp.status \in {"created", "rejected"}

ZipLen ==
    Min(Min(Len(form.exercises), Len(form.sets)),
        Min(Len(form.reps), Len(form.schedule_days)))

\* the rows that pass the row checks of the code
ValidRows ==
    {i \in 1..ZipLen :
        row_error(form.exercises[i], form.sets[i], form.reps[i],
                  form.schedule_days[i]) = ""}

\* the distinct normalized days named by the valid rows
DistinctDays == UNION {day_tokens(form.schedule_days[i]) : i \in ValidRows}

RowErrors == \E k \in 1..Len(resp.errors) : resp.errors[k].kind # "too_many_days"

\* the day-cap message of the response names these two numbers
CapMessageNames(max, count) ==
    \E k \in 1..Len(resp.errors) :
        /\ resp.errors[k].kind = "too_many_days"
        /\ int(resp.errors[k].max) = [ok |-> TRUE, val |-> max]
        /\ int(resp.errors[k].count) = [ok |-> TRUE, val |-> count]

\* C6: under a configured cap M, a submission whose valid rows name exactly M
\* distinct days and that has no other violation is accepted; one that names
\* M + 1 distinct days is rejected with a message containing M and M + 1.
C6_CapIsInclusive ==
    PlanAnswered =>
        LET M == max_training_days_now
            D == Cardinality(DistinctDays)
        IN  /\ (D = M /\ ValidRows = 1..ZipLen /\ ZipLen >= 1)
                   => (resp.status = "created" /\ Len(plans) = 1)
            /\ (D = M + 1)
                   => (resp.status = "rejected" /\ plans = <<>>
                         /\ CapMessageNames(M, M + 1))

\* C6 witness: the cap was set to 3 and a plan of exactly 3 days is stored
C6_Witness ==
    /\ config = <<[key |-> "max_training_days", value |-> <<"3">>]>>
    /\ resp.status = "created"
    /\ Cardinality(DistinctDays) = 3
    /\ Len(plans) = 1

\* C6 witness of the rejection: cap 7, eight days, the message names 7 and 8
C6_WitnessRejected ==
    /\ config = <<[key |-> "max_training_days", value |-> <<"7">>]>>
    /\ resp.status = "rejected"
    /\ Cardinality(DistinctDays) = 8
    /\ resp.errors = <<[kind |-> "too_many_days", max |-> <<"7">>, count |-> <<"8">>]>>

\* C7: plan creation is all-or-nothing: a submission with any violation
\* stores no plan and no detail; an accepted one stores the plan with one
\* detail per valid row; no stored plan ever holds only part of the rows.
C7_PlanAllOrNothing ==
    /\ resp.status \in {"none", "rejected", "no_member", "raised"} => plans = <<>>
    /\ resp.status = "rejected" => resp.errors # <<>>
    /\ resp.status = "created"
           => /\ resp.errors = <<>>
              /\ Len(plans) = 1
              /\ Len(plans[1].workout_details) = Cardinality(ValidRows)
              /\ ValidRows = 1..ZipLen

\* C7 witness: one row is valid, the other is not, and nothing is stored
C7_Witness ==
    /\ resp.status = "rejected"
    /\ ZipLen = 2
    /\ Cardinality(ValidRows) = 1
    /\ plans = <<>>

\* C7 witness of the acceptance: two rows, two details in the one plan
C7_WitnessAccepted ==
    /\ resp.status = "created"
    /\ ZipLen = 2
    /\ Len(plans) = 1
    /\ Len(plans[1].workout_details) = 2

\* C8: a submission that yields zero valid rows is rejected with an error
\* and stores nothing, whatever the day count and the cap are; a submission
\* whose validation ends in an unhandled exception stores nothing either.
C8_EmptyPlanRejected ==
    /\ (PlanAnswered /\ ValidRows = {})
           => /\ resp.status = "rejected"
              /\ resp.errors # <<>>
              /\ plans = <<>>
    /\ resp.status = "raised" => plans = <<>>

\* C8 witness: exercises[] is not empty, sets[] is, so no row is read and no
\* row error is raised; the submission is still rejected
C8_Witness ==
    /\ resp.status = "rejected"
    /\ form.exercises # <<>>
    /\ ZipLen = 0
    /\ resp.errors = <<Msg("no_exercise")>>
    /\ plans = <<>>

\* C8 witness: every row is invalid
C8_WitnessAllInvalid ==
    /\ resp.status = "rejected"
    /\ ZipLen = 2
    /\ ValidRows = {}
    /\ Len(resp.errors) = 2

\* C9: a row whose set count is 0 or negative produces a row-level error and
\* the plan is not persisted.
C9_NonPositiveSetsRejected ==
    (PlanAnswered
       /\ \E i \in 1..ZipLen :
              /\ form.exercises[i] # <<>> /\ form.reps[i] # <<>>
              /\ form.schedule_days[i] # <<>>
              /\ int(form.sets[i]).ok /\ int(form.sets[i]).val < 1)
        => /\ resp.status = "rejected"
           /\ RowErrors
           /\ plans = <<>>

\* C10: a row whose day field holds no non-empty token after normalization
\* produces a row-level error and is never persisted as a WorkoutDetail.
C10_DaylessRowRejected ==
    (PlanAnswered
       /\ \E i \in 1..ZipLen : day_tokens(form.schedule_days[i]) = {})
        => /\ resp.status = "rejected"
           /\ RowErrors
           /\ plans = <<>>

\* the row errors of the response, in the order they were collected
RowErrorKinds == {"row_incomplete", "exercise_not_found", "sets_invalid"}

RECURSIVE KindsOf(_)
KindsOf(errs) ==
    IF errs = <<>> THEN <<>>
    ELSE (IF Head(errs).kind \in RowErrorKinds THEN <<Head(errs).kind>> ELSE <<>>)
         \o KindsOf(Tail(errs))

\* the request reached the validation of the rows, whatever became of it
PlanSubmitted == resp.status \in {"created", "rejected", "raised"}

\* the error a row is to add: an exercise field that names no exercise, a
\* non-decimal digit included, is an unresolvable exercise
ClaimedRowError(i) ==
    LET err == row_error(form.exercises[i], form.sets[i], form.reps[i],
                         form.schedule_days[i])
    IN  IF err = "ValueError" THEN "exercise_not_found" ELSE err

\* what the validation of rows i.. is to report, row by row
RECURSIVE ExpectedRowErrors(_)
ExpectedRowErrors(i) ==
    IF i > ZipLen THEN <<>>
    ELSE (IF ClaimedRowError(i) # "" THEN <<ClaimedRowError(i)>> ELSE <<>>)
         \o ExpectedRowErrors(i + 1)

HasCapMessage == \E k \in 1..Len(resp.errors) : resp.errors[k].kind = "too_many_days"

\* C11: a row that fails validation adds an error, gives none of its day
\* tokens to the distinct-day set of the cap check, and does not stop the
\* evaluation: every later row is validated and its error collected too.
C11_InvalidRowsAccumulateWithoutDays ==
    PlanSubmitted =>
        /\ KindsOf(resp.errors) = ExpectedRowErrors(1)
        /\ HasCapMessage <=> Cardinality(DistinctDays) > max_training_days_now
        /\ HasCapMessage =>
               CapMessageNames(max_training_days_now, Cardinality(DistinctDays))

\* C11 witness: under a cap of 1, a refused row naming day a is followed by a
\* valid row naming day h; the one error is the row error, not the cap
C11_Witness ==
    /\ config = <<[key |-> "max_training_days", value |-> <<"1">>]>>
    /\ form.exercises = <<<<"x">>, <<"1">>>>
    /\ form.schedule_days = <<<<"a">>, <<"h">>>>
    /\ ZipLen = 2
    /\ resp = [status |-> "rejected", errors |-> <<Msg("exercise_not_found")>>]

\* C11 witness: two refused rows, an error for each, in row order
C11_WitnessBothCollected ==
    /\ ZipLen = 2
    /\ resp.status = "rejected"
    /\ KindsOf(resp.errors) = <<"row_incomplete", "sets_invalid">>

\* the day names a field names, read off the field position by position: a
\* name is a run p..q of characters that starts and ends with a character
\* other than white space, holds no comma, and is separated from the commas around
\* it (or the ends of the field) by blanks only; its letters count in lower case
FoldCase(c) ==
    IF \E k \in 1..Len(UpperCase) : UpperCase[k] = c
    THEN LowerCase[CHOOSE k \in 1..Len(UpperCase) : UpperCase[k] = c]
    ELSE c

NamedDays(s) ==
    {[k \in 1..(pq[2] - pq[1] + 1) |-> FoldCase(s[pq[1] + k - 1])] :
        pq \in {x \in (1..Len(s)) \X (1..Len(s)) :
                  /\ x[1] <= x[2]
                  /\ s[x[1]] \notin Whitespace /\ s[x[2]] \notin Whitespace
                  /\ \A k \in x[1]..x[2] : s[k] # ","
                  /\ \E a \in 1..x[1] :
                        /\ a = 1 \/ s[a - 1] = ","
                        /\ \A k \in a..(x[1] - 1) : s[k] \in Whitespace
                  /\ \E b \in x[2]..Len(s) :
                        /\ b = Len(s) \/ s[b + 1] = ","
                        /\ \A k \in (x[2] + 1)..b : s[k] \in Whitespace}}

AllNamedDays == UNION {NamedDays(form.schedule_days[i]) : i \in ValidRows}

Reverse(seq) == [k \in 1..Len(seq) |-> seq[Len(seq) + 1 - k]]

\* the form with its rows in the opposite order
ReversedForm ==
    [form EXCEPT !.exercises = Reverse(@), !.sets = Reverse(@),
                 !.reps = Reverse(@), !.schedule_days = Reverse(@)]

UniqueDaysOf(f) ==
    plan_rows(f, 1, [errors |-> <<>>, details |-> <<>>, unique_days |-> {},
                     raised |-> FALSE]).unique_days

\* the validation of a row ends in an unhandled exception
RowsRaise ==
    \E i \in 1..ZipLen :
        row_error(form.exercises[i], form.sets[i], form.reps[i],
                  form.schedule_days[i]) = "ValueError"

\* C12: the distinct-day count of create_plan is the size of the set of the
\* trimmed, lower-cased, non-empty tokens of the day fields of the valid rows;
\* repetition, case and surrounding blanks add nothing, and the order of the
\* rows does not matter.
C12_DayCountIsSetOfNormalizedTokens ==
    /\ ~RowsRaise => UniqueDaysOf(form) = AllNamedDays
    /\ (~RowsRaise /\ ZipLen = Len(form.exercises))
           => UniqueDaysOf(ReversedForm) = UniqueDaysOf(form)
    /\ PlanAnswered =>
          /\ HasCapMessage <=> Cardinality(AllNamedDays) > max_training_days_now
          /\ HasCapMessage =>
                 CapMessageNames(max_training_days_now, Cardinality(AllNamedDays))

\* C12 witness: " A " and "b,B, b" name two days between them; under a cap of 1
\* the message counts 2
C12_Witness ==
    /\ form.schedule_days = <<<<" ", "A", " ">>, <<"b", ",", "B", ",", " ", "b">>>>
    /\ ValidRows = {1, 2}
    /\ resp = [status |-> "rejected",
               errors |-> <<[kind |-> "too_many_days", max |-> <<"1">>,
                             count |-> <<"2">>]>>]

-----------------------------------------------------------------------------
(* Properties of the settings.                                             *)

\* the cap a validation is to use: the last value written, 6 before any write
CapInForce == IF written = <<>> THEN 6 ELSE int(written).val

\* C13: a validation uses the max_training_days value most recently written
\* by set_config (get_config after set_config returns the value written, a
\* later write replaces the earlier one in the single row of the key), and 6
\* when nothing is stored.
C13_ValidationUsesLastWrittenCap ==
    /\ Cardinality({i \in 1..Len(config) : config[i].key = "max_training_days"}) <= 1
    /\ written = <<>> => config = <<>>
    /\ written # <<>> => get_config("max_training_days", <<"6">>) = written
    /\ PlanAnswered =>
          /\ resp.status = "created" => Cardinality(DistinctDays) <= CapInForce
          /\ HasCapMessage <=> Cardinality(DistinctDays) > CapInForce
          /\ HasCapMessage => CapMessageNames(CapInForce, Cardinality(DistinctDays))

\* C13 witness: 2 was written, and a plan of three days, which the default
\* of 6 admits, is refused against 2
C13_Witness ==
    /\ written = <<"2">>
    /\ Len(config) = 1
    /\ Cardinality(DistinctDays) = 3
    /\ resp = [status |-> "rejected",
               errors |-> <<[kind |-> "too_many_days", max |-> <<"2">>,
                             count |-> <<"3">>]>>]

\* C13 witness: nothing was written, and seven days are refused against 6
C13_WitnessDefault ==
    /\ written = <<>>
    /\ Cardinality(DistinctDays) = 7
    /\ resp.status = "rejected"
    /\ CapMessageNames(6, 7)

-----------------------------------------------------------------------------
(* Properties of the revenue aggregation.                                  *)

RevenueDone == revenue.status = "ok"

InvoicesOf(year, month) ==
    {i \in 1..Len(invoices) :
        invoices[i].created_at.y = year /\ invoices[i].created_at.m = month}

\* the sums of the amounts of a set of invoices: the doubles that adding them
\* one after the other gives, from `total`, in each of their orders
RECURSIVE SumsOf(_, _)
SumsOf(ids, total) ==
    IF ids = {} THEN {total}
    ELSE UNION {SumsOf(ids \ {i}, float_add(total, invoices[i].amount)) : i \in ids}

\* the orders in which the rows of a table may be stored
StoredOrders(rows) ==
    {[i \in 1..Len(rows) |-> rows[p[i]]] : p \in Permutations(1..Len(rows))}

\* C14: the revenue aggregation returns 12 totals, index m - 1 holding the
\* sum of the amounts of the invoices created in month m of the target year
\* and 0 for a month without invoice, and the result is the same in whatever
\* order the invoices are stored or returned.
C14_TwelveMonthlyTotals ==
    RevenueDone =>
        /\ DOMAIN revenue.data = 0..11
        /\ \A m \in 1..12 :
              revenue.data[m - 1] \in SumsOf(InvoicesOf(utcnow.y, m), Float(0))
        /\ invoices = <<>> => \A k \in 0..11 : revenue.data[k] = Float(0)
        /\ \A rows \in StoredOrders(invoices) :
              revenue_of(rows, utcnow.y) = revenue.data

\* the invoices of one year, in their order
RECURSIVE OnlyYear(_, _)
OnlyYear(rows, year) ==
    IF rows = <<>> THEN <<>>
    ELSE IF Head(rows).created_at.y # year THEN OnlyYear(Tail(rows), year)
    ELSE <<Head(rows)>> \o OnlyYear(Tail(rows), year)

\* C15: invoices created in a year other than the target year contribute to
\* none of the totals: the result is what the table gives without them and
\* what it gives with one more of them, stored after or before the others;
\* every total is a sum of the amounts of the invoices of its month of the
\* target year alone.
C15_OtherYearsExcluded ==
    RevenueDone =>
        /\ revenue.data = revenue_of(OnlyYear(invoices, utcnow.y), utcnow.y)
        /\ \A r \in RevRows :
              r.created_at.y # utcnow.y
                  => /\ revenue_of(Append(invoices, r), utcnow.y) = revenue.data
                     /\ revenue_of(<<r>> \o invoices, utcnow.y) = revenue.data
        /\ \A m \in 1..12 :
              revenue.data[m - 1] \in SumsOf(InvoicesOf(utcnow.y, m), Float(0))

\* C15 witness: January invoices of 0.1 and 0.2 of the target year and one
\* of 0.3 of the year before: index 0 holds 0.30000000000000004, the double
\* that 0.1 + 0.2 rounds to
C15_Witness ==
    /\ RevenueDone
    /\ utcnow.y = 2024
    /\ Len(invoices) = 3
    /\ invoices[1] = [member_id |-> 1, package_id |-> 1, amount |-> FloatNum(3, 0 - 1),
                       created_at |-> date(2023, 1, 31)]
    /\ invoices[2] = [member_id |-> 1, package_id |-> 1, amount |-> FloatNum(1, 0 - 1),
                       created_at |-> date(2024, 1, 31)]
    /\ invoices[3] = [member_id |-> 1, package_id |-> 1, amount |-> FloatNum(2, 0 - 1),
                       created_at |-> date(2024, 1, 31)]
    /\ revenue.data[0] = FloatFinite(1, <<3277, 3276, 3276, 3276, 4>>, 0 - 52)
    /\ \A k \in 1..11 : revenue.data[k] = Float(0)

-----------------------------------------------------------------------------
(* Properties of the invoices.                                             *)

\* C16: invoices are immutable: whatever the application does, every invoice
\* created so far is still there afterwards with the same member, package,
\* amount and created_at; a change of the price of its package leaves it alone.
C16_InvoicesImmutable ==
    [][/\ Len(invoices') >= Len(invoices)
       /\ \A i \in 1..Len(invoices) : invoices'[i] = invoices[i]]_vars

\* C16 witness: the price of the package was changed after the first invoice,
\* which keeps the amount it was created with
C16_Witness ==
    /\ Len(invoices) >= 2
    /\ invoices[1].package_id = 1
    /\ invoices[Len(invoices)].package_id = 1
    /\ invoices[1].amount = Float(5)
    /\ invoices[Len(invoices)].amount = FloatNum(75, 0 - 1)
    /\ packages[1].price = FloatNum(75, 0 - 1)

\* a payment request is answered in this step
PaymentStep == last.op = "none" /\ last'.op = "payment"

\* C17: a payment request creates exactly one invoice, for that member and
\* package and of the current price of the package, if and only if both ids
\* resolve; otherwise it creates no invoice and changes no member.
C17_PaymentOneInvoiceIffResolved ==
    [][PaymentStep =>
          /\ last'.ok <=> (last'.member_id # 0 /\ last'.package_id # 0)
          /\ last'.ok =>
                /\ invoices' = Append(invoices,
                                      [member_id  |-> last'.member_id,
                                       package_id |-> last'.package_id,
                                       amount     |-> packages[last'.package_id].price,
                                       created_at |-> utcnow])
                /\ \A i \in 1..Len(members) :
                       i # last'.member_id => members'[i] = members[i]
          /\ ~last'.ok => (invoices' = invoices /\ members' = members)]_vars

\* C17 witness: the member resolves, the package does not; the only invoice
\* is the one of the registration
C17_Witness ==
    /\ last.op = "payment" /\ ~last.ok
    /\ last.member_id = 1 /\ last.package_id = 0
    /\ Len(invoices) = 1

\* C17 witness: a payment at the current price 7 of a package registered at 5
C17_WitnessPaid ==
    /\ PaymentDone
    /\ Len(invoices) = 2
    /\ invoices[1].amount = Float(5)
    /\ invoices[2] = [member_id |-> 1, package_id |-> 1, amount |-> FloatNum(75, 0 - 1),
                       created_at |-> utcnow]

\* a registration request is answered in this step
RegisterStep == last.op = "none" /\ last'.op = "register"

\* C18: a successful registration creates exactly one member and exactly one
\* invoice, of that member, for the chosen package and of its price; a
\* registration rejected by the validation creates neither.
C18_RegistrationMemberAndInvoice ==
    [][RegisterStep =>
          /\ last'.ok =>
                /\ Len(members') = Len(members) + 1
                /\ \A i \in 1..Len(members) : members'[i] = members[i]
                /\ last'.member_id = Len(members) + 1
                /\ has_row(packages, last'.package_id)
                /\ invoices' = Append(invoices,
                                      [member_id  |-> Len(members) + 1,
                                       package_id |-> last'.package_id,
                                       amount     |-> packages[last'.package_id].price,
                                       created_at |-> utcnow])
          /\ ~last'.ok => (members' = members /\ invoices' = invoices)]_vars

\* C18 witness: the first registration: one member, one invoice of the member
C18_Witness ==
    /\ last.op = "register" /\ last.ok
    /\ Len(members) = 1
    /\ Len(invoices) = 1
    /\ invoices[1].member_id = 1
    /\ invoices[1].amount = packages[invoices[1].package_id].price

\* C18 witness: a rejected registration on the empty tables
C18_WitnessRejected ==
    /\ last.op = "register" /\ ~last.ok
    /\ members = <<>>
    /\ invoices = <<>>
    /\ Len(packages) = 1

-----------------------------------------------------------------------------
(* Properties of the registration dates.                                   *)

RegistrationDone == last.op = "register" /\ last.ok

\* C19: for a package of N >= 1 months, the active_until of a newly
\* registered member is the date of the registration advanced by N calendar
\* months, the day cut to the end of the target month.
C19_RegistrationActiveUntil ==
    (RegistrationDone /\ packages[last.package_id].duration_months >= 1)
        => LET N == packages[last.package_id].duration_months
               s == members[last.member_id].registration_date
               r == members[last.member_id].active_until
           IN  /\ s = today
               /\ r.m \in 1..12
               /\ r.d \in 1..CalendarLastDay(r.y, r.m)
               /\ 12 * r.y + (r.m - 1) = 12 * s.y + (s.m - 1) + N
               /\ r.d = Min(s.d, CalendarLastDay(r.y, r.m))

\* C19 witness: registered on 2023-11-30 for 3 months, active until 2024-02-29
C19_Witness ==
    /\ RegistrationDone
    /\ packages[1].duration_months = 3
    /\ members[1].registration_date = date(2023, 11, 30)
    /\ members[1].active_until = date(2024, 2, 29)

\* C20: date + relativedelta(months=n) and _add_months(date, n) give the same
\* date for every start date and every n >= 1.
C20_RelativeDeltaEqualsAddMonths ==
    (fn_out # NoDate /\ fn_in.months >= 1)
        => /\ fn_out = _add_months(fn_in.start_date, fn_in.months)
           /\ fn_out = relativedelta_months(fn_in.start_date, fn_in.months)

\* C20 witness: 13 months from the last day of a January into a common-year
\* February; the year is carried by the constructor and the day is cut
C20_Witness ==
    /\ fn_in = [start_date |-> date(2024, 1, 31), months |-> 13]
    /\ fn_out = date(2025, 2, 28)
    /\ fn_out = relativedelta_months(date(2024, 1, 31), 13)

\* C20 witness: the last day of February of a leap year plus 12 months
C20_WitnessLeapDay ==
    /\ fn_in = [start_date |-> date(2024, 2, 29), months |-> 12]
    /\ fn_out = date(2025, 2, 28)

-----------------------------------------------------------------------------
(* Properties of the admin deletions.                                      *)

\* every invoice names a package that exists, every workout detail an
\* exercise that exists
ReferencesExist ==
    /\ \A i \in 1..Len(invoices) : has_row(packages, invoices[i].package_id)
    /\ \A p \in 1..Len(plans) : \A k \in 1..Len(plans[p].workout_details) :
           plans[p].workout_details[k].exercise_id \in exercises

\* the exercise is named by a workout detail
ExerciseInUse(id) ==
    \E p \in 1..Len(plans) : \E k \in 1..Len(plans[p].workout_details) :
        plans[p].workout_details[k].exercise_id = id

\* the package is named by an invoice
PackageInUse(id) == \E i \in 1..Len(invoices) : invoices[i].package_id = id

DeletePackageStep  == last.op = "none" /\ last'.op = "delete_package"
DeleteExerciseStep == last.op = "none" /\ last'.op = "delete_exercise"

\* C21: delete_package refuses and leaves the package as it is when an invoice
\* names the package and deletes it otherwise; delete_exercise refuses when a
\* workout detail names the exercise and deletes it otherwise; so every
\* invoice always names an existing package and every workout detail an
\* existing exercise.
C21_DeletesKeepReferences ==
    /\ []ReferencesExist
    /\ [][/\ DeletePackageStep =>
               /\ \A id \in 1..Len(packages) :
                      (has_row(packages, id) /\ PackageInUse(id))
                          => (has_row(packages', id) /\ packages'[id] = packages[id])
               /\ last'.ok =>
                      /\ has_row(packages, last'.package_id)
                      /\ ~PackageInUse(last'.package_id)
                      /\ ~has_row(packages', last'.package_id)
               /\ ~last'.ok =>
                      /\ packages' = packages
                      /\ \E id \in 1..Len(packages) :
                             has_row(packages, id) /\ PackageInUse(id)
          /\ DeleteExerciseStep =>
               /\ last'.exercise_id \in exercises
               /\ last'.ok <=> ~ExerciseInUse(last'.exercise_id)
               /\ exercises' = IF last'.ok THEN exercises \ {last'.exercise_id}
                               ELSE exercises]_vars

\* C21 witness: the deletion of an exercise that a saved plan uses was refused,
\* and the exercise is still there
C21_Witness ==
    /\ last.op = "delete_exercise" /\ ~last.ok
    /\ ExerciseInUse(last.exercise_id)
    /\ last.exercise_id \in exercises

\* C21 witness: the deletion of a package that has an invoice was refused
C21_WitnessPackageRefused ==
    /\ last.op = "delete_package" /\ ~last.ok
    /\ invoices # <<>>
    /\ has_row(packages, invoices[1].package_id)

\* C21 witness: an unused exercise was deleted while another one is in use
C21_WitnessDeleted ==
    /\ last.op = "delete_exercise" /\ last.ok
    /\ last.exercise_id \notin exercises
    /\ plans # <<>>

-----------------------------------------------------------------------------
(* Properties of the member statistics.                                    *)

\* the members whose active_until is set and is today or later
ActiveNow == {i \in 1..Len(members) :
                 /\ members[i].active_until # NoDate
                 /\ ~DateLT(members[i].active_until, today)}

\* C22: the active-member count is the number of members whose active_until
\* is set and is today or later: a member whose active_until is today counts,
\* one whose active_until is before today or not set does not.
C22_ActiveCountIsSetAndNotBeforeToday ==
    last.op = "active_members" =>
        /\ last.count = Cardinality(ActiveNow)
        /\ last.count = Len(members)
              - Cardinality({i \in 1..Len(members) :
                                \/ members[i].active_until = NoDate
                                \/ DateLT(members[i].active_until, today)})

\* C22 witness: of two members, one ends today and is counted, the other has
\* no active_until and is not
C22_Witness ==
    /\ last.op = "active_members"
    /\ last.count = 1
    /\ members[1].active_until = today
    /\ members[2].active_until = NoDate

\* C22 witness: a member that ended before today is not counted
C22_WitnessLapsed ==
    /\ last.op = "active_members"
    /\ last.count = 0
    /\ DateLT(members[1].active_until, today)
    /\ members[1].active_until # NoDate
    /\ members[2].active_until = members[1].active_until

\* the invoices of the member that none of its invoices is later than
LatestOf(m) ==
    {i \in 1..Len(invoices) :
        /\ invoices[i].member_id = m
        /\ ~\E k \in 1..Len(invoices) :
               /\ invoices[k].member_id = m
               /\ DateLT(invoices[i].created_at, invoices[k].created_at)}

\* the active members that have an invoice
ActiveWithInvoice ==
    {m \in ActiveNow : \E i \in 1..Len(invoices) : invoices[i].member_id = m}

RECURSIVE SumOver(_, _)
SumOver(f, keys) ==
    IF keys = {} THEN 0
    ELSE LET k == CHOOSE x \in keys : TRUE
         IN  f[k] + SumOver(f, keys \ {k})

\* C23: members_per_package counts every active member that has an invoice
\* once, under the package of its latest invoice, and no inactive member: the
\* count of a package name lies between the number of active members all of
\* whose latest invoices are of that name and the number of those one of
\* whose latest invoices is, and the counts add up to the number of active
\* members that have an invoice.
C23_MembersPerPackageByLatestInvoice ==
    last.op = "members_per_package" =>
        /\ SumOver(last.counts, DOMAIN last.counts) = Cardinality(ActiveWithInvoice)
        /\ \A n \in DOMAIN last.counts :
               /\ last.counts[n] >= 1
               /\ last.counts[n] >= Cardinality({m \in ActiveWithInvoice :
                      \A i \in LatestOf(m) : packages[invoices[i].package_id].name = n})
               /\ last.counts[n] <= Cardinality({m \in ActiveWithInvoice :
                      \E i \in LatestOf(m) : packages[invoices[i].package_id].name = n})
        /\ \A m \in ActiveWithInvoice : \E i \in LatestOf(m) :
               packages[invoices[i].package_id].name \in DOMAIN last.counts

\* C23 witness: the first member is active and has moved from package G to
\* package H, the second has lapsed and holds an invoice of package G: the only
\* count is one member under H
C23_Witness ==
    /\ last.op = "members_per_package"
    /\ packages[2].name = <<"H">>
    /\ members[1].active_until = today
    /\ DateLT(members[2].active_until, today) /\ members[2].active_until # NoDate
    /\ Len(invoices) = 3
    /\ invoices[1].member_id = 1 /\ invoices[1].package_id = 1
    /\ invoices[2].member_id = 2 /\ invoices[2].package_id = 1
    /\ invoices[3].member_id = 1 /\ invoices[3].package_id = 2
    /\ DateLT(invoices[1].created_at, invoices[3].created_at)
    /\ DOMAIN last.counts = {<<"H">>}
    /\ last.counts[<<"H">>] = 1

\* C23 witness: two active members under two packages
C23_WitnessTwoPackages ==
    /\ last.op = "members_per_package"
    /\ DOMAIN last.counts = {<<"G">>, <<"H">>}
    /\ last.counts[<<"G">>] = 1
    /\ last.counts[<<"H">>] = 1

-----------------------------------------------------------------------------
(* Properties of the invoice listing.                                      *)

\* the calendar day of a created_at
DayOf(t) == date(t.y, t.m, t.d)

\* the filter is supplied: the field holds a member id, or a date
MemberSupplied(raw) == raw # <<>> /\ isdigit(raw)
DateSupplied(raw)   == raw # <<>> /\ strptime_ok(raw)

\* the invoices that satisfy every supplied filter of the listing, the end
\* date being included up to its end
SatisfyFilters ==
    {i \in 1..Len(invoices) :
        /\ MemberSupplied(last.selected_member_id)
               => invoices[i].member_id = int(last.selected_member_id).val
        /\ DateSupplied(last.start_date)
               => DateLE(DayOf(strptime(last.start_date)), DayOf(invoices[i].created_at))
        /\ DateSupplied(last.end_date)
               => DateLE(DayOf(invoices[i].created_at), DayOf(strptime(last.end_date)))}

\* C24: the history listing holds exactly the invoices that satisfy every
\* supplied filter (the member; created_at at or after the start date;
\* created_at at or before the end of the end date), from the newest to the
\* oldest.
C24_HistoryListsExactlyFiltered ==
    (last.op = "history" /\ last.ok) =>
        /\ {last.invoices[k] : k \in DOMAIN last.invoices} = SatisfyFilters
        /\ Len(last.invoices) = Cardinality(SatisfyFilters)
        /\ \A k \in 1..(Len(last.invoices) - 1) :
               DateTimeLE(invoices[last.invoices[k + 1]].created_at,
                          invoices[last.invoices[k]].created_at)

-----------------------------------------------------------------------------
(* Properties of the login and of the role dashboards.                     *)

AdminRole == <<"a", "d", "m", "i", "n">>

\* the role of the user of the session
SessionRole == users[current_user].role

\* an operation of the admin dashboard takes effect in this step: the user
\* table or the settings change
AdminOperationStep == users' # users \/ config' # config

\* C25: dashboards are gated by role: a logged-in user performs the operations
\* of a dashboard only if its role is the role of that dashboard; a trainer or
\* a cashier cannot create or edit users or change the settings through the
\* admin routes.
C25_DashboardsGatedByRole ==
    [][AdminOperationStep => (is_authenticated /\ SessionRole = AdminRole)]_vars

\* C30: the login ends at a page: once a user is logged in, the redirects
\* from the login route lead to the dashboard of the role and never back to
\* the login route; an inactive account is never logged in.
C30_LoginEndsAtDashboard ==
    is_authenticated =>
        /\ users[current_user].is_active
        /\ location # redirect("/login")
        /\ (location.status = "redirect" /\ location.path \in DashboardPaths)
               => (SessionRole \in ROLES /\ location.path = ROLE_REDIRECTS[SessionRole])

-----------------------------------------------------------------------------
(* Properties of overlapping payments.                                     *)

\* both requests have committed
BothCommitted == \A r \in Requests : tx[r].pc = "committed"

\* active_until after a payment of the duration on the stored active_until
AfterPayment(active_until, duration_months) ==
    _add_months(IF active_until # NoDate /\ DateLE(today, active_until)
                THEN active_until ELSE today,
                duration_months)

\* the request a ran first on the rows it read, and b after it
SerialOutcome(a, b) ==
    AfterPayment(AfterPayment(tx[a].active_until, tx[a].duration_months),
                 tx[b].duration_months)

\* C26: two overlapping payments for one member are serializable: however
\* their steps (read, compute, write, commit) interleave, the active_until of
\* the member and the invoices are those of the two payments run one after the
\* other in some order, so no extension is lost.
C26_ConcurrentPaymentsSerializable ==
    BothCommitted =>
        /\ Len(invoices) = 2
        /\ \E a, b \in Requests :
               /\ a # b
               /\ members[1].active_until = SerialOutcome(a, b)

-----------------------------------------------------------------------------
(* Properties of the form lists of a plan.                                 *)

\* C27: no entry of exercises[] is dropped without notice: when the plan is
\* accepted every entry has become a workout detail of the plan, and a
\* submission of which an entry did not is rejected, also when sets[], reps[]
\* or schedule_days[] is shorter than exercises[].
C27_NoExerciseEntryDropped ==
    (PlanAnswered /\ resp.status = "created") =>
        /\ Len(plans[Len(plans)].workout_details) = Len(form.exercises)
        /\ \A i \in 1..Len(form.exercises) :
               plans[Len(plans)].workout_details[i].exercise_id
                   = int(form.exercises[i]).val

-----------------------------------------------------------------------------
(* Properties of the member emails.                                        *)

\* no two members have the same email
EmailsUnique ==
    \A i, k \in 1..Len(members) : i # k => members[i].email # members[k].email

\* C28: member emails stay unique: after any sequence of registrations no two
\* members have the same email; a registration goes through only with an
\* email that no member holds, and a registration that is refused creates no
\* member and no invoice and leaves the members as they are.
C28_MemberEmailsUnique ==
    /\ []EmailsUnique
    /\ [][RegisterStep =>
             /\ last'.ok =>
                    /\ Len(members') = Len(members) + 1
                    /\ \A i \in 1..Len(members) :
                           /\ members'[i] = members[i]
                           /\ members[i].email # members'[Len(members')].email
             /\ ~last'.ok => (members' = members /\ invoices' = invoices)]_vars

\* C28 witness: two members of different emails, and a further registration,
\* for which the table has no room unless it is refused, was refused
C28_Witness ==
    /\ Len(members) = MaxMembers + 1
    /\ members[1].email # members[Len(members)].email
    /\ Len(invoices) = Len(members)
    /\ last.op = "register" /\ ~last.ok

-----------------------------------------------------------------------------
(* Properties of a split extension.                                        *)

SplitDone == fn_out # NoDate

\* C29: splitting an extension never gives more time than a single one: for
\* m, n >= 1, _add_months(_add_months(d, m), n) is in the same year and month
\* as _add_months(d, m + n), on the same day of the month or an earlier one.
C29_SplitExtensionNeverLonger ==
    SplitDone =>
        /\ fn_out.split.y = fn_out.single.y
        /\ fn_out.split.m = fn_out.single.m
        /\ fn_out.split.d <= fn_out.single.d

\* C29 witness: Jan 31 + 1 + 1 months is Mar 28, Jan 31 + 2 months is Mar 31
C29_Witness ==
    /\ fn_in = [start_date |-> date(2023, 1, 31), months |-> 1, then |-> 1]
    /\ fn_out = [split |-> date(2023, 3, 28), single |-> date(2023, 3, 31)]

\* C29 witness: a start that is never clamped gives the same date both ways
C29_WitnessSame ==
    /\ fn_in = [start_date |-> date(2023, 12, 15), months |-> 2, then |-> 12]
    /\ fn_out = [split |-> date(2025, 2, 15), single |-> date(2025, 2, 15)]

=============================================================================
